---------------------------- MODULE Spec2Model ----------------------------
(***************************************************************************)
(* Model of the GitHub permission provider                                 *)
(* (enterprise/internal/authz/github/github.go): FetchUserPerms and        *)
(* FetchRepoPerms over a paginated directory client and a TTL-governed     *)
(* group cache.  Each Fetch call is one action; the sequential code of a   *)
(* call is a chain of operators that thread a "world" record               *)
(*   w = [cache, log, n, faultAt, partial]                                 *)
(* holding the group cache, the trace of directory requests and cache      *)
(* operations made so far, the number of directory requests made so far,   *)
(* and the position (and shape) of the directory failure of this call.     *)
(***************************************************************************)
EXTENDS Integers, Sequences, FiniteSets, TLC

VARIABLES
    ttl,       \* ProviderOptions.GroupsCacheTTL the provider was built with
    cache,     \* the store of the group cache: key -> [group, age]
    orgPerm,   \* directory: each organization's default repository permission
    overlap,   \* directory: how many items a page repeats from the page before
    call,      \* the Fetch call that just ended: inputs, result, error, trace
    racing,    \* the Fetch calls of concurrent callers, each at its position
    created    \* directory: the repositories that exist by now

vars == <<ttl, cache, orgPerm, overlap, call, racing, created>>

(***************************************************************************)
(* Bounds of the model.                                                    *)
(***************************************************************************)
PageSize == 1        \* items of a directory page (the host's page size)
MaxTTL == 1          \* the positive TTL a provider is built with
MaxFault == 14       \* a call's directory request that fails is one of the first MaxFault

(***************************************************************************)
(* The directory (the code host): accounts 1..3, the organizations acme,   *)
(* other and void (which owns no repository), their teams and              *)
(* repositories.                                                           *)
(***************************************************************************)
ServiceID == "https://github.com/"
Hostname == "github.com"
BaseToken == "base"

DatabaseIDs == {1, 2, 3}
Orgs == {"acme", "other", "void"}
RepoIDs == {"r1", "r2", "r3", "r4", "r5"}
Permissions == {"none", "read"}
\* The organizations whose default permission changes over time.
Mutable == {"acme"}
\* The default permission of the others.
FixedPermission(org) == IF org = "void" THEN "read" ELSE "none"

\* Repositories in the order the directory lists them.
AllRepos == <<"r1", "r2", "r3", "r4", "r5">>

RepoOwner(r) ==
    CASE r = "r1" -> "u2"
      [] r = "r2" -> "u3"
      [] r = "r3" -> "acme"
      [] r = "r4" -> "acme"
      [] r = "r5" -> "other"

\* Owner and collaborator accounts of a repository (direct affiliation).
DirectCollaborators(r) ==
    CASE r = "r1" -> <<2, 3>>
      [] r = "r2" -> <<3, 2>>
      [] r = "r3" -> <<3>>
      [] r = "r4" -> <<>>
      [] r = "r5" -> <<>>

\* Members of an organization; admins only when adminsOnly.
OrgMembers(org, adminsOnly) ==
    CASE org = "acme" -> IF adminsOnly THEN <<1>> ELSE <<1, 2>>
      [] org = "other" -> IF adminsOnly THEN <<3>> ELSE <<2, 3>>
      [] org = "void" -> <<3>>
      [] OTHER -> <<>>

\* Teams as <<organization, slug>>.  The slug of other/acme is the login of
\* the organization acme; acme/docs has no repository.
Teams == {<<"acme", "core">>, <<"acme", "docs">>, <<"other", "acme">>}

TeamMembers(org, slug) ==
    CASE <<org, slug>> = <<"acme", "core">> -> <<2>>
      [] <<org, slug>> = <<"acme", "docs">> -> <<2>>
      [] <<org, slug>> = <<"other", "acme">> -> <<2>>
      [] OTHER -> <<>>

\* The repositories of a list that exist by now.
Existing(list) == SelectSeq(list, LAMBDA r : r \in created)

TeamRepos(org, slug) ==
    Existing(CASE <<org, slug>> = <<"acme", "core">> -> <<"r4">>
               [] <<org, slug>> = <<"other", "acme">> -> <<"r5">>
               [] OTHER -> <<>>)

OrgRepos(org) ==
    Existing(CASE org = "acme" -> <<"r3", "r4">>
               [] org = "other" -> <<"r5">>
               [] OTHER -> <<>>)

\* Organizations and teams of an account, in listing order.
UserOrgs(id) ==
    CASE id = 1 -> <<"acme">>
      [] id = 2 -> <<"acme", "other">>
      [] id = 3 -> <<"other", "void">>

UserTeams(id) ==
    CASE id = 2 -> << <<"acme", "core">>, <<"acme", "docs">>, <<"other", "acme">> >>
      [] OTHER -> <<>>

\* Teams tied to a repository.
RepoTeams(r) ==
    CASE r = "r4" -> <<"core">>
      [] r = "r5" -> <<"acme">>
      [] OTHER -> <<>>

Range(s) == {s[i] : i \in 1..Len(s)}

RECURSIVE SelectSeqBy(_, _)
\* The elements e of s with Keep[e], in order.
SelectSeqBy(s, Keep) ==
    IF s = <<>> THEN <<>>
    ELSE IF Keep[Head(s)] THEN <<Head(s)>> \o SelectSeqBy(Tail(s), Keep)
    ELSE SelectSeqBy(Tail(s), Keep)

\* Ground truth of the code host: account id can read repository r.
CanRead(id, r) ==
    \/ id \in Range(DirectCollaborators(r))
    \/ id \in Range(OrgMembers(RepoOwner(r), TRUE))
    \/ /\ RepoOwner(r) \in Orgs
       /\ orgPerm[RepoOwner(r)] = "read"
       /\ id \in Range(OrgMembers(RepoOwner(r), FALSE))
    \/ \E i \in 1..Len(RepoTeams(r)) :
          id \in Range(TeamMembers(RepoOwner(r), RepoTeams(r)[i]))

\* The private repositories affiliated with an account: owner and
\* collaborator only, or every affiliation when the filter is empty.
AffiliatedRepos(id, affiliations) ==
    IF affiliations = <<>>
    THEN SelectSeqBy(Existing(AllRepos), [r \in RepoIDs |-> CanRead(id, r)])
    ELSE SelectSeqBy(Existing(AllRepos),
                     [r \in RepoIDs |-> id \in Range(DirectCollaborators(r))])

\* The collaborators of a repository: direct ones, or everyone with access
\* when the affiliation filter is empty.
Collaborators(r, affiliation) ==
    IF affiliation = ""
    THEN SelectSeqBy(<<1, 2, 3>>, [id \in DatabaseIDs |-> CanRead(id, r)])
    ELSE DirectCollaborators(r)

(***************************************************************************)
(* Pagination of the directory: page p (1-based) holds PageSize items and, *)
(* after the first page, repeats the last `overlap` items of the page      *)
(* before it (items shifting between two requests).                        *)
(***************************************************************************)
Min(a, b) == IF a < b THEN a ELSE b
Max(a, b) == IF a > b THEN a ELSE b

PageItems(list, page) ==
    LET first == Max(1, (page - 1) * PageSize + 1 - overlap)
        last == Min(Len(list), page * PageSize)
    IN IF first > last THEN <<>> ELSE SubSeq(list, first, last)

HasNextPage(list, page) == page * PageSize < Len(list)


(***************************************************************************)
(* The trace of a call: one entry per directory request (with its          *)
(* response) and per cache operation, in program order.                    *)
(***************************************************************************)
Entry(op, token, target, page, arg, ok, items, more) ==
    [op |-> op, token |-> token, target |-> target, page |-> page, arg |-> arg,
     ok |-> ok, items |-> items, more |-> more]

CacheOps == {"getGroup", "setGroup", "invalidateGroup"}
\* An entry recording that a cached set was merged into the result; it is
\* an observation of the call, not an operation.
Observations == {"useCached"}

IsRequest(e) == e.op \notin CacheOps \cup Observations

Nil == <<>>                    \* the nil error
DirectoryError == <<"directory error">>
NotFound == <<"not found">>

\* errors.Wrap(err, msg): the message in front, the cause kept at the end.
Wrap(err, msg) == <<msg>> \o err
Cause(err) == err[Len(err)]

\* The response to a directory request and the world after it.
Response(w, e, failing) ==
    [w |-> [w EXCEPT !.log = Append(@, e), !.n = @ + 1],
     items |-> e.items,
     hasNextPage |-> e.more,
     err |-> IF failing THEN DirectoryError ELSE Nil]

\* A paginated directory request: the response is the page of `list`, or
\* the failure of this call when this is its faultAt-th request.  A failing
\* response carries the items of its page when w.partial.
Request(w, op, token, target, page, arg, list) ==
    LET Answer(failing) ==
            Response(w,
                     Entry(op, token, target, page, arg, ~failing,
                           IF failing /\ ~w.partial THEN <<>> ELSE PageItems(list, page),
                           ~failing /\ HasNextPage(list, page)),
                     failing)
    IN Answer(w.n + 1 = w.faultAt)

TokenOf(id) == CASE id = 1 -> "t1" [] id = 2 -> "t2" [] id = 3 -> "t3"
TokenOwner(token) == CHOOSE id \in DatabaseIDs : TokenOf(id) = token

Digit == <<"1", "2", "3", "4", "5", "6", "7", "8", "9">>
RECURSIVE FormatInt(_)
\* strconv.FormatInt(n, 10) for n >= 0.
FormatInt(n) ==
    IF n = 0 THEN "0"
    ELSE IF n < 10 THEN Digit[n]
    ELSE FormatInt(n \div 10) \o (IF n % 10 = 0 THEN "0" ELSE Digit[n % 10])

AccountIDs == {FormatInt(id) : id \in DatabaseIDs}

(***************************************************************************)
(* The group cache.  A stored record carries its age, the time since set   *)
(* stamped it; a record as old as the TTL is absent for get.               *)
(***************************************************************************)
\* newGroupPermsCache that keeps a cache for a TTL of zero.
newGroupPermsCache_NegativeOnly(t) == IF t < 0 THEN "nil" ELSE "cache"

\* newGroupPermsCache: no cache when the TTL disables group caching.
newGroupPermsCache(t) == IF t <= 0 THEN "nil" ELSE "cache"

groupsCache == newGroupPermsCache(ttl)

cachedGroup(org, team, repos, users) ==
    [Org |-> org, Team |-> team, Repositories |-> repos, Users |-> users]

key(group) ==
    IF group.Team = "" THEN group.Org ELSE group.Org \o "/" \o group.Team

Expired(record) == record.age >= ttl

CacheEntry(op, k, ok) == Entry(op, "", k, 0, "", ok, <<>>, FALSE)

\* getGroup answering with a stored record whatever its age.
getGroup_IgnoreTTL(w, org, team) ==
    LET Get(rawGroup, k) ==
            LET Found(ok) ==
                    [w |-> [w EXCEPT !.log = Append(@, CacheEntry("getGroup", k, ok))],
                     group |-> IF ok THEN w.cache[k].group ELSE rawGroup,
                     exists |-> ok]
            IN Found(k \in DOMAIN w.cache)
    IN Get(cachedGroup(org, team, <<>>, <<>>), key(cachedGroup(org, team, <<>>, <<>>)))

getGroup(w, org, team) ==
    LET Get(rawGroup, k) ==
            LET Found(ok) ==
                    [w |-> [w EXCEPT !.log = Append(@, CacheEntry("getGroup", k, ok))],
                     group |-> IF ok THEN w.cache[k].group ELSE rawGroup,
                     exists |-> ok]
            IN Found(k \in DOMAIN w.cache /\ ~Expired(w.cache[k]))
    IN Get(cachedGroup(org, team, <<>>, <<>>), key(cachedGroup(org, team, <<>>, <<>>)))

\* setGroup that stamps only a record it creates: a record it replaces
\* keeps the time of its first write.
setGroup_KeepStamp(w, group) ==
    LET Set(k) ==
            [w EXCEPT !.cache = [x \in DOMAIN w.cache \cup {k} |->
                                    IF x = k
                                    THEN [group |-> group,
                                          age |-> IF k \in DOMAIN w.cache
                                                  THEN w.cache[k].age ELSE 0]
                                    ELSE w.cache[x]],
                      !.log = Append(@, CacheEntry("setGroup", k, TRUE))]
    IN Set(key(group))

setGroup(w, group) ==
    LET Set(k) ==
            [w EXCEPT !.cache = [x \in DOMAIN w.cache \cup {k} |->
                                    IF x = k THEN [group |-> group, age |-> 0]
                                    ELSE w.cache[x]],
                      !.log = Append(@, CacheEntry("setGroup", k, TRUE))]
    IN Set(key(group))

\* invalidateGroup clears the repository and user fields of the stored
\* record and of the caller's copy.
invalidateGroup(w, group) ==
    LET Clear(k, cleared) ==
            [w |-> [w EXCEPT !.cache = [x \in DOMAIN w.cache |->
                                           IF x = k
                                           THEN [w.cache[x] EXCEPT !.group = cleared]
                                           ELSE w.cache[x]],
                             !.log = Append(@, CacheEntry("invalidateGroup", k, TRUE))],
             group |-> cleared]
    IN Clear(key(group), [group EXCEPT !.Repositories = <<>>, !.Users = <<>>])

\* canViewOrgRepos: the organization's default repository permission grants
\* read to all members.
canViewOrgRepos(org) == org.DefaultRepositoryPermission \in {"read", "write", "admin"}

(***************************************************************************)
(* fetchUserPermsByToken and its parts.                                    *)
(***************************************************************************)
NoPerms == [Exacts |-> <<>>, seenRepos |-> {}]

\* addRepoToUserPerms without the check of seenRepos.
addRepoToUserPerms_NoSeen(perms, repos) ==
    [Exacts |-> perms.Exacts \o repos, seenRepos |-> perms.seenRepos \cup Range(repos)]

RECURSIVE addRepoToUserPerms(_, _)
addRepoToUserPerms(perms, repos) ==
    IF repos = <<>> THEN perms
    ELSE addRepoToUserPerms(
             IF Head(repos) \notin perms.seenRepos
             THEN [Exacts |-> Append(perms.Exacts, Head(repos)),
                   seenRepos |-> perms.seenRepos \cup {Head(repos)}]
             ELSE perms,
             Tail(repos))

AffiliationArg(affiliations) == IF affiliations = <<>> THEN "" ELSE "owner,collaborator"

RECURSIVE syncDirectAffiliations_RetryOnce(_, _, _, _, _)
\* The loop "Sync direct affiliations" asking once more for a page that
\* failed before it gives up.
syncDirectAffiliations_RetryOnce(w, token, affiliations, page, perms) ==
    LET Retried(again) == [w |-> again.w, perms |-> perms, err |-> DirectoryError]
        Page(r) ==
            LET Added(added) ==
                    IF r.hasNextPage
                    THEN syncDirectAffiliations_RetryOnce(r.w, token, affiliations,
                                                          page + 1, added)
                    ELSE [w |-> r.w, perms |-> added, err |-> Nil]
            IN IF r.err # Nil
               THEN Retried(Request(r.w, "ListAffiliatedRepositories", token, "", page,
                                    AffiliationArg(affiliations),
                                    AffiliatedRepos(TokenOwner(token), affiliations)))
               ELSE Added(addRepoToUserPerms(perms, r.items))
    IN Page(Request(w, "ListAffiliatedRepositories", token, "", page,
                    AffiliationArg(affiliations),
                    AffiliatedRepos(TokenOwner(token), affiliations)))

RECURSIVE syncDirectAffiliations(_, _, _, _, _)
\* The loop "Sync direct affiliations", from page `page` on.
syncDirectAffiliations(w, token, affiliations, page, perms) ==
    LET Page(r) ==
            LET Added(added) ==
                    IF r.hasNextPage
                    THEN syncDirectAffiliations(r.w, token, affiliations, page + 1, added)
                    ELSE [w |-> r.w, perms |-> added, err |-> Nil]
            IN IF r.err # Nil THEN [w |-> r.w, perms |-> perms, err |-> r.err]
               ELSE Added(addRepoToUserPerms(perms, r.items))
    IN Page(Request(w, "ListAffiliatedRepositories", token, "", page,
                    AffiliationArg(affiliations),
                    AffiliatedRepos(TokenOwner(token), affiliations)))

\* syncGroup of getUserAffiliatedGroups; g = [w, groups, seenGroups].
userSyncGroup(g, org, team, opts) ==
    LET Add(cachedPerms) ==
            [w |-> cachedPerms.w,
             groups |-> Append(g.groups, cachedPerms.group),
             seenGroups |-> g.seenGroups \cup {key(cachedPerms.group)}]
        Got(got) ==
            Add(IF got.exists /\ opts.InvalidateCaches
                THEN invalidateGroup(got.w, got.group)
                ELSE [w |-> got.w, group |-> got.group])
    IN IF team # "" /\ team \in g.seenGroups THEN g
       ELSE Got(getGroup(g.w, org, team))

RECURSIVE syncOrgs_NoFilter(_, _, _)
\* The orgs of one page without the test of the default permission.
syncOrgs_NoFilter(g, orgs, opts) ==
    IF orgs = <<>> THEN g
    ELSE syncOrgs_NoFilter(userSyncGroup(g, Head(orgs).Login, "", opts), Tail(orgs), opts)

RECURSIVE syncOrgs(_, _, _)
\* The orgs of one page, in order.
syncOrgs(g, orgs, opts) ==
    IF orgs = <<>> THEN g
    ELSE syncOrgs(IF canViewOrgRepos(Head(orgs))
                  THEN userSyncGroup(g, Head(orgs).Login, "", opts) ELSE g,
                  Tail(orgs), opts)

RECURSIVE syncTeams(_, _, _)
\* The teams of one page, in order.
syncTeams(g, teams, opts) ==
    IF teams = <<>> THEN g
    ELSE syncTeams(IF Head(teams).ReposCount > 0 /\ Head(teams).Organization # ""
                   THEN userSyncGroup(g, Head(teams).Organization, Head(teams).Slug, opts)
                   ELSE g,
                   Tail(teams), opts)

OrgDetails(login) ==
    [Login |-> login,
     DefaultRepositoryPermission |-> IF login \in Orgs THEN orgPerm[login] ELSE "none"]

TeamDetails(org, slug) ==
    [Organization |-> org, Slug |-> slug, ReposCount |-> Len(TeamRepos(org, slug))]

UserOrgDetails(id) == [i \in 1..Len(UserOrgs(id)) |-> OrgDetails(UserOrgs(id)[i])]
UserTeamDetails(id) ==
    [i \in 1..Len(UserTeams(id)) |-> TeamDetails(UserTeams(id)[i][1], UserTeams(id)[i][2])]

RECURSIVE getUserOrgs(_, _, _, _)
\* The loop "Get orgs", from page `page` on.
getUserOrgs(g, token, page, opts) ==
    LET Page(r) ==
            LET Synced(g2) ==
                    IF r.hasNextPage THEN getUserOrgs(g2, token, page + 1, opts)
                    ELSE [g |-> g2, err |-> Nil]
            IN IF r.err # Nil THEN [g |-> [g EXCEPT !.w = r.w], err |-> r.err]
               ELSE Synced(syncOrgs([g EXCEPT !.w = r.w], r.items, opts))
    IN Page(Request(g.w, "GetAuthenticatedUserOrgsDetailsAndMembership", token, "", page, "",
                    UserOrgDetails(TokenOwner(token))))

RECURSIVE getUserTeams(_, _, _, _)
\* The loop "Get teams", from page `page` on.
getUserTeams(g, token, page, opts) ==
    LET Page(r) ==
            LET Synced(g2) ==
                    IF r.hasNextPage THEN getUserTeams(g2, token, page + 1, opts)
                    ELSE [g |-> g2, err |-> Nil]
            IN IF r.err # Nil THEN [g |-> [g EXCEPT !.w = r.w], err |-> r.err]
               ELSE Synced(syncTeams([g EXCEPT !.w = r.w], r.items, opts))
    IN Page(Request(g.w, "GetAuthenticatedUserTeams", token, "", page, "",
                    UserTeamDetails(TokenOwner(token))))

\* getUserAffiliatedGroups with the loop over the teams before the loop over
\* the orgs.
getUserAffiliatedGroups_TeamsFirst(w, clientWithToken, opts) ==
    LET GotOrgs(orgs) == [w |-> orgs.g.w, groups |-> orgs.g.groups, err |-> orgs.err]
        GotTeams(teams) ==
            IF teams.err # Nil
            THEN [w |-> teams.g.w, groups |-> teams.g.groups, err |-> teams.err]
            ELSE GotOrgs(getUserOrgs(teams.g, clientWithToken, 1, opts))
    IN GotTeams(getUserTeams([w |-> w, groups |-> <<>>, seenGroups |-> {}],
                             clientWithToken, 1, opts))

getUserAffiliatedGroups(w, clientWithToken, opts) ==
    LET GotTeams(teams) == [w |-> teams.g.w, groups |-> teams.g.groups, err |-> teams.err]
        GotOrgs(orgs) ==
            IF orgs.err # Nil
            THEN [w |-> orgs.g.w, groups |-> orgs.g.groups, err |-> orgs.err]
            ELSE GotTeams(getUserTeams(orgs.g, clientWithToken, 1, opts))
    IN GotOrgs(getUserOrgs([w |-> w, groups |-> <<>>, seenGroups |-> {}],
                           clientWithToken, 1, opts))

UseCached(w, group, items) ==
    [w EXCEPT !.log = Append(@, Entry("useCached", "", key(group), 0, "", TRUE, items, FALSE))]

RECURSIVE listGroupRepos_UserToken(_, _, _, _)
\* The full sync of a group through the client of the account: the token of
\* the call's first request.
listGroupRepos_UserToken(w, group, page, perms) ==
    LET Page(r) ==
            LET Added(synced, added) ==
                    IF r.hasNextPage THEN listGroupRepos_UserToken(r.w, synced, page + 1, added)
                    ELSE [w |-> r.w, group |-> synced, perms |-> added, err |-> Nil]
            IN IF r.err # Nil
               THEN [w |-> r.w, group |-> group, perms |-> addRepoToUserPerms(perms, r.items),
                     err |-> Wrap(r.err, "list repos for group")]
               ELSE Added([group EXCEPT !.Repositories = @ \o r.items],
                          addRepoToUserPerms(perms, r.items))
    IN Page(IF group.Team = ""
            THEN Request(w, "ListOrgRepositories", w.log[1].token, group.Org, page, "",
                         OrgRepos(group.Org))
            ELSE Request(w, "ListTeamRepositories", w.log[1].token, key(group), page, "",
                         TeamRepos(group.Org, group.Team)))

RECURSIVE listGroupRepos(_, _, _, _)
\* The loop "Perform full sync" of one group, from page `page` on.
listGroupRepos(w, group, page, perms) ==
    LET Page(r) ==
            LET Added(synced, added) ==
                    IF r.hasNextPage THEN listGroupRepos(r.w, synced, page + 1, added)
                    ELSE [w |-> r.w, group |-> synced, perms |-> added, err |-> Nil]
            IN IF r.err # Nil
               THEN [w |-> r.w, group |-> group, perms |-> addRepoToUserPerms(perms, r.items),
                     err |-> Wrap(r.err, "list repos for group")]
               ELSE Added([group EXCEPT !.Repositories = @ \o r.items],
                          addRepoToUserPerms(perms, r.items))
    IN Page(IF group.Team = ""
            THEN Request(w, "ListOrgRepositories", BaseToken, group.Org, page, "",
                         OrgRepos(group.Org))
            ELSE Request(w, "ListTeamRepositories", BaseToken, key(group), page, "",
                         TeamRepos(group.Org, group.Team)))

\* The account is never added to the users of a group.
addSelfToGroup_Never(w, group, accountID) == [w |-> w, group |-> group]

\* The group is stored again although it lists the account already.
addSelfToGroup_AlwaysStore(w, group, accountID) ==
    LET Add(added) == [w |-> setGroup(w, added), group |-> added]
    IN IF Len(group.Users) > 0
       THEN Add(IF accountID \in Range(group.Users) THEN group
                ELSE [group EXCEPT !.Users = Append(@, accountID)])
       ELSE [w |-> w, group |-> group]

\* "If this is a partial cache, add self to group".
addSelfToGroup(w, group, accountID) ==
    LET Add(added) == [w |-> setGroup(w, added), group |-> added]
    IN IF Len(group.Users) > 0 /\ accountID \notin Range(group.Users)
       THEN Add([group EXCEPT !.Users = Append(@, accountID)])
       ELSE [w |-> w, group |-> group]

RECURSIVE syncUserGroups_AlwaysEnumerate(_, _, _, _)
\* The loop over the groups without the use of a cached repository set.
syncUserGroups_AlwaysEnumerate(w, perms, groups, accountID) ==
    LET Synced(full) ==
            IF full.err # Nil
            THEN [w |-> full.w, perms |-> full.perms, err |-> full.err]
            ELSE syncUserGroups_AlwaysEnumerate(setGroup(full.w, full.group), full.perms,
                                                Tail(groups), accountID)
        Group(self) ==
            Synced(listGroupRepos(self.w, [self.group EXCEPT !.Repositories = <<>>], 1, perms))
    IN IF groups = <<>> THEN [w |-> w, perms |-> perms, err |-> Nil]
       ELSE Group(addSelfToGroup(w, Head(groups), accountID))

RECURSIVE syncUserGroups_StoreOnError(_, _, _, _)
\* The loop over the groups storing a group before it looks at the error
\* of its listing.
syncUserGroups_StoreOnError(w, perms, groups, accountID) ==
    LET Synced(full) ==
            IF full.err # Nil
            THEN [w |-> setGroup(full.w, full.group), perms |-> full.perms, err |-> full.err]
            ELSE syncUserGroups_StoreOnError(setGroup(full.w, full.group), full.perms,
                                             Tail(groups), accountID)
        Group(self) ==
            IF Len(self.group.Repositories) > 0
            THEN syncUserGroups_StoreOnError(
                     UseCached(self.w, self.group, self.group.Repositories),
                     addRepoToUserPerms(perms, self.group.Repositories),
                     Tail(groups), accountID)
            ELSE Synced(listGroupRepos(self.w, [self.group EXCEPT !.Repositories = <<>>],
                                       1, perms))
    IN IF groups = <<>> THEN [w |-> w, perms |-> perms, err |-> Nil]
       ELSE Group(addSelfToGroup(w, Head(groups), accountID))

RECURSIVE syncUserGroups(_, _, _, _)
\* The loop "Get repos from groups, cached if possible".
syncUserGroups(w, perms, groups, accountID) ==
    LET Synced(full) ==
            IF full.err # Nil
            THEN [w |-> full.w, perms |-> full.perms, err |-> full.err]
            ELSE syncUserGroups(setGroup(full.w, full.group), full.perms,
                                Tail(groups), accountID)
        Group(self) ==
            IF Len(self.group.Repositories) > 0
            THEN syncUserGroups(UseCached(self.w, self.group, self.group.Repositories),
                                addRepoToUserPerms(perms, self.group.Repositories),
                                Tail(groups), accountID)
            ELSE Synced(listGroupRepos(self.w, [self.group EXCEPT !.Repositories = <<>>],
                                       1, perms))
    IN IF groups = <<>> THEN [w |-> w, perms |-> perms, err |-> Nil]
       ELSE Group(addSelfToGroup(w, Head(groups), accountID))

\* The affiliations of the direct listing restricted without a cache too.
userAffiliations_OwnerCollaborator == <<"owner", "collaborator">>

\* The affiliations of the direct listing: all of them (nil) without a cache.
userAffiliations == IF groupsCache = "nil" THEN <<>> ELSE <<"owner", "collaborator">>

\* A return that drops the partial result when there is an error.
Result_DropOnError(w, ids, groups, err) ==
    [w |-> w, nil |-> FALSE, ids |-> IF err # Nil THEN <<>> ELSE ids, groups |-> groups,
     err |-> err]

Result(w, ids, groups, err) ==
    [w |-> w, nil |-> FALSE, ids |-> ids, groups |-> groups, err |-> err]

\* fetchUserPermsByToken returning the error of the discovery of the groups
\* as it got it.
fetchUserPermsByToken_DiscoveryUnwrapped(w, accountID, token, opts) ==
    LET Synced(synced, groups) == Result(synced.w, synced.perms.Exacts, groups, synced.err)
        Found(found, perms) ==
            IF found.err # Nil
            THEN Result(found.w, perms.Exacts, found.groups, found.err)
            ELSE Synced(syncUserGroups(found.w, perms, found.groups, accountID),
                        found.groups)
        Direct(direct) ==
            IF direct.err # Nil
            THEN Result(direct.w, direct.perms.Exacts, <<>>,
                        Wrap(direct.err, "list repos for user"))
            ELSE IF groupsCache = "nil"
            THEN Result(direct.w, direct.perms.Exacts, <<>>, Nil)
            ELSE Found(getUserAffiliatedGroups(direct.w, token, opts), direct.perms)
    IN Direct(syncDirectAffiliations(w, token, userAffiliations, 1, NoPerms))

\* fetchUserPermsByToken going through the list of the groups twice.
fetchUserPermsByToken_GroupsTwice(w, accountID, token, opts) ==
    LET Synced(synced, groups) == Result(synced.w, synced.perms.Exacts, groups, synced.err)
        Found(found, perms) ==
            IF found.err # Nil
            THEN Result(found.w, perms.Exacts, found.groups,
                        Wrap(found.err, "get groups affiliated with user"))
            ELSE Synced(syncUserGroups(found.w, perms, found.groups \o found.groups, accountID),
                        found.groups)
        Direct(direct) ==
            IF direct.err # Nil
            THEN Result(direct.w, direct.perms.Exacts, <<>>,
                        Wrap(direct.err, "list repos for user"))
            ELSE IF groupsCache = "nil"
            THEN Result(direct.w, direct.perms.Exacts, <<>>, Nil)
            ELSE Found(getUserAffiliatedGroups(direct.w, token, opts), direct.perms)
    IN Direct(syncDirectAffiliations(w, token, userAffiliations, 1, NoPerms))

fetchUserPermsByToken(w, accountID, token, opts) ==
    LET Synced(synced, groups) == Result(synced.w, synced.perms.Exacts, groups, synced.err)
        Found(found, perms) ==
            IF found.err # Nil
            THEN Result(found.w, perms.Exacts, found.groups,
                        Wrap(found.err, "get groups affiliated with user"))
            ELSE Synced(syncUserGroups(found.w, perms, found.groups, accountID),
                        found.groups)
        Direct(direct) ==
            IF direct.err # Nil
            THEN Result(direct.w, direct.perms.Exacts, <<>>,
                        Wrap(direct.err, "list repos for user"))
            ELSE IF groupsCache = "nil"
            THEN Result(direct.w, direct.perms.Exacts, <<>>, Nil)
            ELSE Found(getUserAffiliatedGroups(direct.w, token, opts), direct.perms)
    IN Direct(syncDirectAffiliations(w, token, userAffiliations, 1, NoPerms))

Failed(w, msg) == [w |-> w, nil |-> TRUE, ids |-> <<>>, groups |-> <<>>, err |-> <<msg>>]

\* extsvc.IsHostOfAccount / IsHostOfRepo: the service of the code host.
IsHostOf(serviceID) == serviceID = ServiceID

\* FetchUserPerms without the check of the account's code host.
FetchUserPerms_NoHostCheck(w, account, opts) ==
    IF account.nil THEN Failed(w, "no account provided")
    ELSE IF ~account.data THEN Failed(w, "get external account data")
    ELSE IF account.token = "" THEN Failed(w, "no token found in the external account data")
    ELSE fetchUserPermsByToken(w, account.AccountID, account.token, opts)

\* account = [nil, ServiceID, AccountID, data, token]: data is FALSE when the
\* account data cannot be decoded, token is "" when it holds no token.
FetchUserPerms(w, account, opts) ==
    IF account.nil THEN Failed(w, "no account provided")
    ELSE IF ~IsHostOf(account.ServiceID) THEN Failed(w, "not a code host of the account")
    ELSE IF ~account.data THEN Failed(w, "get external account data")
    ELSE IF account.token = "" THEN Failed(w, "no token found in the external account data")
    ELSE fetchUserPermsByToken(w, account.AccountID, account.token, opts)

(***************************************************************************)
(* FetchRepoPerms and its parts.                                           *)
(***************************************************************************)
NoUsers == [userIDs |-> <<>>, seenUsers |-> {}]

RECURSIVE addUserToRepoPerms(_, _)
addUserToRepoPerms(perms, users) ==
    IF users = <<>> THEN perms
    ELSE addUserToRepoPerms(
             IF Head(users) \notin perms.seenUsers
             THEN [userIDs |-> Append(perms.userIDs, Head(users)),
                   seenUsers |-> perms.seenUsers \cup {Head(users)}]
             ELSE perms,
             Tail(users))

\* The account identifiers of a page of collaborators.
AccountIDsOf(users) == [i \in 1..Len(users) |-> FormatInt(users[i])]

\* The repository the directory knows as owner/name, "" when there is none.
RepoNamed(owner, name) == IF name \in RepoIDs /\ RepoOwner(name) = owner THEN name ELSE ""

NameWithOwner(owner, name) == owner \o "/" \o name

RepoCollaborators(owner, name, affiliation) ==
    IF RepoNamed(owner, name) = "" THEN <<>>
    ELSE Collaborators(RepoNamed(owner, name), affiliation)

RECURSIVE syncCollaborators(_, _, _, _, _, _)
\* The loop "Sync collaborators", from page `page` on.
syncCollaborators(w, owner, name, affiliation, page, perms) ==
    LET Page(r) ==
            LET Added(added) ==
                    IF r.hasNextPage
                    THEN syncCollaborators(r.w, owner, name, affiliation, page + 1, added)
                    ELSE [w |-> r.w, perms |-> added, err |-> Nil]
            IN IF r.err # Nil THEN [w |-> r.w, perms |-> perms, err |-> r.err]
               ELSE Added(addUserToRepoPerms(perms, AccountIDsOf(r.items)))
    IN Page(Request(w, "ListRepositoryCollaborators", BaseToken, NameWithOwner(owner, name),
                    page, affiliation, RepoCollaborators(owner, name, affiliation)))

\* client.GetOrganization: one request, answered not-found for a login that
\* is no organization.
GetOrganization(w, owner) ==
    LET Answer(failing) ==
            [w |-> [w EXCEPT !.log = Append(@, Entry("GetOrganization", BaseToken, owner, 0, "",
                                                     ~failing /\ owner \in Orgs, <<>>, FALSE)),
                             !.n = @ + 1],
             org |-> OrgDetails(owner),
             err |-> IF failing THEN DirectoryError
                     ELSE IF owner \in Orgs THEN Nil ELSE NotFound]
    IN Answer(w.n + 1 = w.faultAt)

IsNotFound(err) == err = NotFound

\* syncGroup of getRepoAffiliatedGroups without the invalidation.
repoSyncGroup_NeverInvalidate(g, owner, team, adminsOnly, opts) ==
    LET Add(got) ==
            [w |-> got.w,
             groups |-> Append(g.groups,
                               [cachedGroup |-> got.group, adminsOnly |-> adminsOnly])]
    IN Add(getGroup(g.w, owner, team))

\* syncGroup of getRepoAffiliatedGroups; g = [w, groups].
repoSyncGroup(g, owner, team, adminsOnly, opts) ==
    LET Add(group) ==
            [w |-> group.w,
             groups |-> Append(g.groups,
                               [cachedGroup |-> group.group, adminsOnly |-> adminsOnly])]
        Got(got) ==
            Add(IF got.exists /\ opts.InvalidateCaches
                THEN invalidateGroup(got.w, got.group)
                ELSE [w |-> got.w, group |-> got.group])
    IN Got(getGroup(g.w, owner, team))

RECURSIVE syncRepoTeams(_, _, _, _)
\* The teams of one page, in order.
syncRepoTeams(g, owner, teams, opts) ==
    IF teams = <<>> THEN g
    ELSE syncRepoTeams(repoSyncGroup(g, owner, Head(teams).Slug, FALSE, opts),
                       owner, Tail(teams), opts)

RepoTeamDetails(owner, name) ==
    IF RepoNamed(owner, name) = "" THEN <<>>
    ELSE [i \in 1..Len(RepoTeams(RepoNamed(owner, name))) |->
             TeamDetails(owner, RepoTeams(RepoNamed(owner, name))[i])]

RECURSIVE listRepositoryTeams(_, _, _, _, _)
\* The loop over ListRepositoryTeams, from page `page` on.
listRepositoryTeams(g, owner, name, page, opts) ==
    LET Page(r) ==
            LET Synced(g2) ==
                    IF r.hasNextPage THEN listRepositoryTeams(g2, owner, name, page + 1, opts)
                    ELSE [w |-> g2.w, groups |-> g2.groups, err |-> Nil]
            IN IF r.err # Nil THEN [w |-> r.w, groups |-> g.groups, err |-> r.err]
               ELSE Synced(syncRepoTeams([g EXCEPT !.w = r.w], owner, r.items, opts))
    IN Page(Request(g.w, "ListRepositoryTeams", BaseToken, NameWithOwner(owner, name),
                    page, "", RepoTeamDetails(owner, name)))

\* getRepoAffiliatedGroups that lists the teams of the repository whatever
\* the default permission of the organization.
getRepoAffiliatedGroups_AlwaysTeams(w, owner, name, opts) ==
    LET Looked(looked) ==
            IF looked.err # Nil
            THEN IF IsNotFound(looked.err)
                 THEN [w |-> looked.w, groups |-> <<>>, err |-> Nil]
                 ELSE [w |-> looked.w, groups |-> <<>>, err |-> looked.err]
            ELSE listRepositoryTeams(
                     repoSyncGroup([w |-> looked.w, groups |-> <<>>], owner, "",
                                   ~canViewOrgRepos(looked.org), opts),
                     owner, name, 1, opts)
    IN Looked(GetOrganization(w, owner))

\* getRepoAffiliatedGroups that returns the not-found answer as an error.
getRepoAffiliatedGroups_NotFoundIsError(w, owner, name, opts) ==
    LET All(g) == [w |-> g.w, groups |-> g.groups, err |-> Nil]
        Looked(looked) ==
            IF looked.err # Nil
            THEN [w |-> looked.w, groups |-> <<>>, err |-> looked.err]
            ELSE IF canViewOrgRepos(looked.org)
            THEN All(repoSyncGroup([w |-> looked.w, groups |-> <<>>], owner, "", FALSE, opts))
            ELSE listRepositoryTeams(
                     repoSyncGroup([w |-> looked.w, groups |-> <<>>], owner, "", TRUE, opts),
                     owner, name, 1, opts)
    IN Looked(GetOrganization(w, owner))

getRepoAffiliatedGroups(w, owner, name, opts) ==
    LET All(g) == [w |-> g.w, groups |-> g.groups, err |-> Nil]
        Looked(looked) ==
            IF looked.err # Nil
            THEN IF IsNotFound(looked.err)
                 THEN [w |-> looked.w, groups |-> <<>>, err |-> Nil]
                 ELSE [w |-> looked.w, groups |-> <<>>, err |-> looked.err]
            ELSE IF canViewOrgRepos(looked.org)
            THEN All(repoSyncGroup([w |-> looked.w, groups |-> <<>>], owner, "", FALSE, opts))
            ELSE listRepositoryTeams(
                     repoSyncGroup([w |-> looked.w, groups |-> <<>>], owner, "", TRUE, opts),
                     owner, name, 1, opts)
    IN Looked(GetOrganization(w, owner))

\* The full sync of a group's members that stops after the first page.
listGroupMembers_FirstPageOnly(w, owner, group, page, perms) ==
    LET Page(r) ==
            IF r.err # Nil
            THEN [w |-> r.w, group |-> group, perms |-> perms,
                  err |-> Wrap(r.err, "list users for group")]
            ELSE [w |-> r.w,
                  group |-> [group EXCEPT !.cachedGroup.Users = @ \o AccountIDsOf(r.items)],
                  perms |-> addUserToRepoPerms(perms, AccountIDsOf(r.items)),
                  err |-> Nil]
    IN Page(IF group.cachedGroup.Team = ""
            THEN Request(w, "ListOrganizationMembers", BaseToken, owner, page,
                         IF group.adminsOnly THEN "admins" ELSE "all",
                         OrgMembers(owner, group.adminsOnly))
            ELSE Request(w, "ListTeamMembers", BaseToken,
                         NameWithOwner(owner, group.cachedGroup.Team), page, "",
                         TeamMembers(owner, group.cachedGroup.Team)))

RECURSIVE listGroupMembers_AllMembers(_, _, _, _, _)
\* The full sync of a group asking for every member of the organization,
\* admins-only or not.
listGroupMembers_AllMembers(w, owner, group, page, perms) ==
    LET Page(r) ==
            LET Added(synced, added) ==
                    IF r.hasNextPage
                    THEN listGroupMembers_AllMembers(r.w, owner, synced, page + 1, added)
                    ELSE [w |-> r.w, group |-> synced, perms |-> added, err |-> Nil]
            IN IF r.err # Nil
               THEN [w |-> r.w, group |-> group, perms |-> perms,
                     err |-> Wrap(r.err, "list users for group")]
               ELSE Added([group EXCEPT !.cachedGroup.Users = @ \o AccountIDsOf(r.items)],
                          addUserToRepoPerms(perms, AccountIDsOf(r.items)))
    IN Page(IF group.cachedGroup.Team = ""
            THEN Request(w, "ListOrganizationMembers", BaseToken, owner, page, "all",
                         OrgMembers(owner, FALSE))
            ELSE Request(w, "ListTeamMembers", BaseToken,
                         NameWithOwner(owner, group.cachedGroup.Team), page, "",
                         TeamMembers(owner, group.cachedGroup.Team)))

RECURSIVE listGroupMembers(_, _, _, _, _)
\* The loop "Perform full sync" of one group's members, from page `page` on.
listGroupMembers(w, owner, group, page, perms) ==
    LET Page(r) ==
            LET Added(synced, added) ==
                    IF r.hasNextPage THEN listGroupMembers(r.w, owner, synced, page + 1, added)
                    ELSE [w |-> r.w, group |-> synced, perms |-> added, err |-> Nil]
            IN IF r.err # Nil
               THEN [w |-> r.w, group |-> group, perms |-> perms,
                     err |-> Wrap(r.err, "list users for group")]
               ELSE Added([group EXCEPT !.cachedGroup.Users = @ \o AccountIDsOf(r.items)],
                          addUserToRepoPerms(perms, AccountIDsOf(r.items)))
    IN Page(IF group.cachedGroup.Team = ""
            THEN Request(w, "ListOrganizationMembers", BaseToken, owner, page,
                         IF group.adminsOnly THEN "admins" ELSE "all",
                         OrgMembers(owner, group.adminsOnly))
            ELSE Request(w, "ListTeamMembers", BaseToken,
                         NameWithOwner(owner, group.cachedGroup.Team), page, "",
                         TeamMembers(owner, group.cachedGroup.Team)))

\* The repository is added to a populated group without the test of its
\* presence.
addRepoToGroup_NoCheck(w, group, repoID) ==
    LET Add(added) == [w |-> setGroup(w, added.cachedGroup), group |-> added]
    IN IF Len(group.cachedGroup.Repositories) > 0
       THEN Add([group EXCEPT !.cachedGroup.Repositories = Append(@, repoID)])
       ELSE [w |-> w, group |-> group]

\* The repository is appended to the copy of the group and the record is
\* not written back.
addRepoToGroup_NoStore(w, group, repoID) ==
    IF /\ Len(group.cachedGroup.Repositories) > 0
       /\ repoID \notin Range(group.cachedGroup.Repositories)
    THEN [w |-> w, group |-> [group EXCEPT !.cachedGroup.Repositories = Append(@, repoID)]]
    ELSE [w |-> w, group |-> group]

\* "If this is a partial cache, add self to group".
addRepoToGroup(w, group, repoID) ==
    LET Add(added) == [w |-> setGroup(w, added.cachedGroup), group |-> added]
    IN IF /\ Len(group.cachedGroup.Repositories) > 0
          /\ repoID \notin Range(group.cachedGroup.Repositories)
       THEN Add([group EXCEPT !.cachedGroup.Repositories = Append(@, repoID)])
       ELSE [w |-> w, group |-> group]

RECURSIVE syncRepoGroups_EmptyIsHit(_, _, _, _, _)
\* The loop over the groups taking every cached member set, an empty one
\* too, as a cache hit.
syncRepoGroups_EmptyIsHit(w, perms, groups, owner, repoID) ==
    LET Group(self) ==
            syncRepoGroups_EmptyIsHit(UseCached(self.w, self.group.cachedGroup,
                                                self.group.cachedGroup.Users),
                                      addUserToRepoPerms(perms, self.group.cachedGroup.Users),
                                      Tail(groups), owner, repoID)
    IN IF groups = <<>> THEN [w |-> w, perms |-> perms, err |-> Nil]
       ELSE Group(addRepoToGroup(w, Head(groups), repoID))

RECURSIVE syncRepoGroups(_, _, _, _, _)
\* The loop "Perform a fresh sync with groups that need a sync".
syncRepoGroups(w, perms, groups, owner, repoID) ==
    LET Synced(full) ==
            IF full.err # Nil
            THEN [w |-> full.w, perms |-> full.perms, err |-> full.err]
            ELSE syncRepoGroups(setGroup(full.w, full.group.cachedGroup), full.perms,
                                Tail(groups), owner, repoID)
        Group(self) ==
            IF Len(self.group.cachedGroup.Users) > 0
            THEN syncRepoGroups(UseCached(self.w, self.group.cachedGroup,
                                          self.group.cachedGroup.Users),
                                addUserToRepoPerms(perms, self.group.cachedGroup.Users),
                                Tail(groups), owner, repoID)
            ELSE Synced(listGroupMembers(self.w, owner, self.group, 1, perms))
    IN IF groups = <<>> THEN [w |-> w, perms |-> perms, err |-> Nil]
       ELSE Group(addRepoToGroup(w, Head(groups), repoID))

\* The collaborator listing restricted to direct affiliation, cache or not.
repoAffiliation_AlwaysDirect == "direct"

\* The affiliation of the collaborator listing: every one ("") without a cache.
repoAffiliation == IF groupsCache = "nil" THEN "" ELSE "direct"

\* strings.TrimPrefix of the host name and of "/", on the segments of the URI.
TrimHost(uri) == IF uri # <<>> /\ Head(uri) = Hostname THEN Tail(uri) ELSE uri

\* The groups of a repository as the record of the call keeps them: the
\* cached group with the adminsOnly mark of its repoAffiliatedGroup.
GroupsOf(groups) ==
    [i \in 1..Len(groups) |->
        [Org |-> groups[i].cachedGroup.Org, Team |-> groups[i].cachedGroup.Team,
         Repositories |-> groups[i].cachedGroup.Repositories,
         Users |-> groups[i].cachedGroup.Users, adminsOnly |-> groups[i].adminsOnly]]

\* FetchRepoPerms going on to the groups it found before the discovery
\* failed.
fetchRepoPermsByName_SyncDespiteError(w, owner, name, repoID, opts) ==
    LET Synced(synced, groups, err) ==
            Result(synced.w, synced.perms.userIDs, GroupsOf(groups),
                   IF err # Nil THEN err ELSE synced.err)
        Found(found, perms) ==
            Synced(syncRepoGroups(found.w, perms, found.groups, owner, repoID),
                   found.groups,
                   IF found.err # Nil
                   THEN Wrap(found.err, "get groups affiliated with repo") ELSE Nil)
        Direct(direct) ==
            IF direct.err # Nil
            THEN Result(direct.w, direct.perms.userIDs, <<>>,
                        Wrap(direct.err, "list users for repo"))
            ELSE IF groupsCache = "nil"
            THEN Result(direct.w, direct.perms.userIDs, <<>>, Nil)
            ELSE Found(getRepoAffiliatedGroups(direct.w, owner, name, opts), direct.perms)
    IN Direct(syncCollaborators(w, owner, name, repoAffiliation, 1, NoUsers))

fetchRepoPermsByName(w, owner, name, repoID, opts) ==
    LET Synced(synced, groups) ==
            Result(synced.w, synced.perms.userIDs, GroupsOf(groups), synced.err)
        Found(found, perms) ==
            IF found.err # Nil
            THEN Result(found.w, perms.userIDs, GroupsOf(found.groups),
                        Wrap(found.err, "get groups affiliated with repo"))
            ELSE Synced(syncRepoGroups(found.w, perms, found.groups, owner, repoID),
                        found.groups)
        Direct(direct) ==
            IF direct.err # Nil
            THEN Result(direct.w, direct.perms.userIDs, <<>>,
                        Wrap(direct.err, "list users for repo"))
            ELSE IF groupsCache = "nil"
            THEN Result(direct.w, direct.perms.userIDs, <<>>, Nil)
            ELSE Found(getRepoAffiliatedGroups(direct.w, owner, name, opts), direct.perms)
    IN Direct(syncCollaborators(w, owner, name, repoAffiliation, 1, NoUsers))

\* repo = [nil, ServiceID, ID, URI]: URI is the sequence of the segments of
\* the repository's URI.
FetchRepoPerms(w, repo, opts) ==
    IF repo.nil THEN Failed(w, "no repository provided")
    ELSE IF ~IsHostOf(repo.ServiceID) THEN Failed(w, "not a code host of the repository")
    ELSE IF Len(TrimHost(repo.URI)) # 2 THEN Failed(w, "split nameWithOwner")
    ELSE fetchRepoPermsByName(w, TrimHost(repo.URI)[1], TrimHost(repo.URI)[2], repo.ID, opts)

(***************************************************************************)
(* Inputs of the calls.                                                    *)
(***************************************************************************)
Account(id) ==
    [nil |-> FALSE, ServiceID |-> ServiceID, AccountID |-> FormatInt(id), data |-> TRUE,
     token |-> TokenOf(id)]

Accounts == {Account(id) : id \in DatabaseIDs}

BadAccounts ==
    { [Account(2) EXCEPT !.nil = TRUE],
      [Account(2) EXCEPT !.ServiceID = "https://gitlab.com/"],
      [Account(2) EXCEPT !.data = FALSE],
      [Account(2) EXCEPT !.token = ""] }

Repository(r) ==
    [nil |-> FALSE, ServiceID |-> ServiceID, ID |-> r, URI |-> <<Hostname, RepoOwner(r), r>>]

\* The repositories FetchRepoPerms is asked about: the personal ones and
\* those of acme (r5, of the organization other, is reached from its team).
Repositories == {Repository(r) : r \in RepoIDs \ {"r5"}}

BadRepositories ==
    { [Repository("r3") EXCEPT !.nil = TRUE],
      [Repository("r3") EXCEPT !.ServiceID = "https://gitlab.com/"],
      [Repository("r3") EXCEPT !.URI = <<Hostname, "r3">>] }

TTLs == {-1, 0, MaxTTL}

(***************************************************************************)
(* The state machine.                                                      *)
(***************************************************************************)
NoCall ==
    [kind |-> "none", id |-> "", valid |-> FALSE, InvalidateCaches |-> FALSE,
     nil |-> TRUE, ids |-> <<>>, err |-> Nil, groups |-> <<>>, log |-> <<>>,
     before |-> [k \in {} |-> 0], permBefore |-> [o \in Orgs |-> "none"], faultAt |-> 0]

Init ==
    /\ ttl \in TTLs
    /\ cache = [k \in {} |-> 0]
    /\ orgPerm \in {p \in [Orgs -> Permissions] : \A org \in Orgs \ Mutable : p[org] = FixedPermission(org)}
    /\ overlap \in {0, 1}
    /\ call = NoCall
    /\ racing = {}
    /\ created = RepoIDs

World(faultAt, partial) ==
    [cache |-> cache, log |-> <<>>, n |-> 0, faultAt |-> faultAt, partial |-> partial]

Record(kind, id, valid, opts, out) ==
    [kind |-> kind, id |-> id, valid |-> valid,
     InvalidateCaches |-> opts.InvalidateCaches,
     nil |-> out.nil, ids |-> out.ids, err |-> out.err, groups |-> out.groups,
     log |-> out.w.log, before |-> cache, permBefore |-> orgPerm,
     faultAt |-> out.w.faultAt]

Options == [InvalidateCaches : BOOLEAN]

\* The failure of a call reaches the request it names.  The items of a
\* failing response are read only by the repository sync of a group; every
\* other request treats a failing response with items and one without
\* alike, and the one without is explored.
FaultReached(w) ==
    /\ w.faultAt <= w.n
    /\ w.partial => /\ w.faultAt > 0
                    /\ w.log[Len(w.log)].op \in {"ListOrgRepositories", "ListTeamRepositories"}

\* A call ends: the cache is as the call left it and its record is kept.
Ended(kind, id, valid, opts, out) ==
    /\ FaultReached(out.w)
    /\ cache' = out.w.cache
    /\ call' = Record(kind, id, valid, opts, out)

\* A caller runs FetchUserPerms to its end.
CallFetchUserPerms ==
    \E account \in Accounts \cup BadAccounts, opts \in Options,
       faultAt \in 0..MaxFault, partial \in BOOLEAN :
        /\ call = NoCall
        /\ racing = {}
        /\ Ended("user", account.AccountID, account \in Accounts, opts,
                 FetchUserPerms(World(faultAt, partial), account, opts))
        /\ UNCHANGED <<ttl, orgPerm, overlap, racing, created>>

\* A caller runs FetchRepoPerms to its end.
CallFetchRepoPerms ==
    \E repo \in Repositories \cup BadRepositories, opts \in Options,
       faultAt \in 0..MaxFault, partial \in BOOLEAN :
        /\ call = NoCall
        /\ racing = {}
        /\ repo.ID \in created
        /\ Ended("repo", repo.ID, repo \in Repositories, opts,
                 FetchRepoPerms(World(faultAt, partial), repo, opts))
        /\ UNCHANGED <<ttl, orgPerm, overlap, racing, created>>

\* The caller takes the result of the call.
Return ==
    /\ call # NoCall
    /\ call' = NoCall
    /\ UNCHANGED <<ttl, cache, orgPerm, overlap, racing, created>>

\* Time passes: every stored record grows one unit older.  A record that
\* reaches the TTL is dropped: get answers absent for it from then on and
\* set overwrites it, so no operation tells it from a missing record.
Tick ==
    /\ call = NoCall
    /\ DOMAIN cache # {}
    /\ cache' = [k \in {x \in DOMAIN cache : cache[x].age + 1 < ttl} |->
                    [cache[k] EXCEPT !.age = @ + 1]]
    /\ UNCHANGED <<ttl, orgPerm, overlap, call, racing, created>>

\* An owner changes the default repository permission of an organization.
SetOrgPermission ==
    \E org \in Mutable, p \in Permissions :
        /\ call = NoCall
        /\ orgPerm[org] # p
        /\ orgPerm' = [orgPerm EXCEPT ![org] = p]
        /\ UNCHANGED <<ttl, cache, overlap, call, racing, created>>

Next == CallFetchUserPerms \/ CallFetchRepoPerms \/ Return \/ Tick \/ SetOrgPermission

Spec == Init /\ [][Next]_vars

\* The same machine over a directory that does not change.
NextStatic == CallFetchUserPerms \/ CallFetchRepoPerms \/ Return \/ Tick

SpecStatic == Init /\ [][NextStatic]_vars

(***************************************************************************)
(* What the record of a call shows.                                        *)
(***************************************************************************)
CachingEnabled == groupsCache # "nil"

\* The call passed its preconditions and ran fetchUserPermsByToken / the
\* body of FetchRepoPerms.
UserCall == call.kind = "user" /\ ~call.nil
RepoCall == call.kind = "repo" /\ ~call.nil

IdOf(accountID) == CHOOSE id \in DatabaseIDs : FormatInt(id) = accountID

NoDuplicates(s) == \A i, j \in 1..Len(s) : i # j => s[i] # s[j]

RepoListings == {"ListAffiliatedRepositories", "ListOrgRepositories", "ListTeamRepositories"}
GroupRepoListings == {"ListOrgRepositories", "ListTeamRepositories"}
UserListings == {"ListRepositoryCollaborators", "ListOrganizationMembers", "ListTeamMembers"}
GroupUserListings == {"ListOrganizationMembers", "ListTeamMembers"}
DiscoveryRequests ==
    {"GetAuthenticatedUserOrgsDetailsAndMembership", "GetAuthenticatedUserTeams",
     "GetOrganization", "ListRepositoryTeams"}

\* The positions of the trace whose operation is one of ops.
At(log, ops) == {i \in 1..Len(log) : log[i].op \in ops}

Union(S) == UNION S

(***************************************************************************)
(* C1  Admin-scoping.  For a repository of an organization whose default   *)
(* permission is restrictive, FetchRepoPerms (caching enabled, from any    *)
(* cache state earlier calls left) returns no account that is neither a    *)
(* direct collaborator, nor an admin of the organization, nor a member of  *)
(* a team tied to the repository.                                          *)
(***************************************************************************)
TeamMembersOf(r) ==
    Union({Range(TeamMembers(RepoOwner(r), RepoTeams(r)[i])) : i \in 1..Len(RepoTeams(r))})

AdminScoped(r) ==
    Range(DirectCollaborators(r)) \cup Range(OrgMembers(RepoOwner(r), TRUE)) \cup TeamMembersOf(r)

C1_AdminScoping ==
    (/\ RepoCall
     /\ CachingEnabled
     /\ RepoOwner(call.id) \in Orgs
     /\ orgPerm[RepoOwner(call.id)] = "none")
    => \A a \in Range(call.ids) : IdOf(a) \in AdminScoped(call.id)

(***************************************************************************)
(* C2  No duplicates.  The list FetchUserPerms returns never holds the     *)
(* same repository identifier twice and the list FetchRepoPerms returns    *)
(* never holds the same account identifier twice, on success and on every  *)
(* partial-result error return.                                            *)
(***************************************************************************)
C2_NoDuplicates == (UserCall \/ RepoCall) => NoDuplicates(call.ids)

\* A call that returned a partial result with an error after two of its
\* responses delivered the same identifier.
C2_Witness ==
    /\ UserCall
    /\ call.err # Nil
    /\ \E i, j \in At(call.log, RepoListings) :
          /\ i < j
          /\ Range(call.log[i].items) \cap Range(call.log[j].items) # {}
          /\ Range(call.log[j].items) \subseteq Range(call.ids)

(***************************************************************************)
(* C3  Complete user result.  With caching enabled, a directory that does  *)
(* not change and no listing error, FetchUserPerms(A) returns exactly A's  *)
(* owner/collaborator repositories, the repositories of every organization *)
(* of A whose default permission grants read, and those of every team of A *)
(* that has a repository.                                                  *)
(***************************************************************************)
ReadAllOrgs(id) == {org \in Range(UserOrgs(id)) : orgPerm[org] = "read"}
TeamsWithRepos(id) == {t \in Range(UserTeams(id)) : Len(TeamRepos(t[1], t[2])) > 0}

CompleteUserResult(id) ==
    Range(AffiliatedRepos(id, <<"owner", "collaborator">>))
    \cup Union({Range(OrgRepos(org)) : org \in ReadAllOrgs(id)})
    \cup Union({Range(TeamRepos(t[1], t[2])) : t \in TeamsWithRepos(id)})

C3_CompleteUserResult ==
    (UserCall /\ CachingEnabled /\ call.err = Nil)
    => Range(call.ids) = CompleteUserResult(IdOf(call.id))

(***************************************************************************)
(* C4  Team discovery filter.  A team is included as a group of the        *)
(* account only if it has a repository and its parent organization was not *)
(* included as a whole-organization group in the same call; a team whose   *)
(* parent organization was included is neither enumerated nor written to   *)
(* the cache by that call.                                                 *)
(***************************************************************************)
\* The whole-organization groups discovered before position i.
OrgsBefore(groups, i) == {groups[j].Org : j \in {x \in 1..(i - 1) : groups[x].Team = ""}}

C4_TeamDiscoveryFilter ==
    (UserCall /\ CachingEnabled)
    => /\ \A i \in 1..Len(call.groups) :
             call.groups[i].Team # ""
             => /\ Len(TeamRepos(call.groups[i].Org, call.groups[i].Team)) > 0
                /\ call.groups[i].Org \notin OrgsBefore(call.groups, i)
       /\ \A i \in At(call.log, {"ListTeamRepositories", "setGroup"}) :
             \A org \in OrgsBefore(call.groups, Len(call.groups) + 1) :
                \A t \in Teams : t[1] = org => call.log[i].target # NameWithOwner(t[1], t[2])

(***************************************************************************)
(* The result a trace accounts for.                                        *)
(***************************************************************************)
\* The identifiers a response delivers, as the result holds them.
Items(e) == IF e.op \in UserListings THEN AccountIDsOf(e.items) ELSE e.items

RECURSIVE DedupInto(_, _)
\* acc followed by the elements of s it does not hold, each once.
DedupInto(acc, s) ==
    IF s = <<>> THEN acc
    ELSE DedupInto(IF Head(s) \in Range(acc) THEN acc ELSE Append(acc, Head(s)), Tail(s))

\* An entry whose identifiers go to the result: a successful page of a
\* repository or account listing, a cached set that was merged and, when
\* withFailing, the failing page of a group's repository listing.
Contributes(e, withFailing) ==
    \/ e.op = "useCached"
    \/ e.op \in RepoListings \cup UserListings /\ e.ok
    \/ withFailing /\ e.op \in GroupRepoListings /\ ~e.ok

RECURSIVE Merged(_, _, _)
Merged(log, withFailing, acc) ==
    IF log = <<>> THEN acc
    ELSE Merged(Tail(log), withFailing,
                IF Contributes(Head(log), withFailing)
                THEN DedupInto(acc, Items(Head(log))) ELSE acc)

Last(log) == log[Len(log)]

\* The stored group of key k, as a sequence of at most one record.
GroupOf(c, k) == IF k \in DOMAIN c THEN <<c[k].group>> ELSE <<>>

(***************************************************************************)
(* C5  Cache hit avoids re-enumeration.  After a FetchUserPerms that       *)
(* completed successfully, a second FetchUserPerms for the same account    *)
(* with the same options, made at once, returns the same set and requests  *)
(* no page of an organization's or a team's repositories.                  *)
(***************************************************************************)
SecondFetchUserPerms(opts) == FetchUserPerms(World(0, FALSE), Account(IdOf(call.id)), opts)

SameWithoutGroupListing(second) ==
    /\ second.err = Nil
    /\ Range(second.ids) = Range(call.ids)
    /\ At(second.w.log, GroupRepoListings) = {}

C5_CacheHitSameOptions ==
    (UserCall /\ CachingEnabled /\ call.err = Nil)
    => SameWithoutGroupListing(
           SecondFetchUserPerms([InvalidateCaches |-> call.InvalidateCaches]))

\* Every group of the call is stored with a repository set that is not empty.
GroupsResolved ==
    \A i \in 1..Len(call.groups) :
        /\ key(call.groups[i]) \in DOMAIN cache
        /\ ~Expired(cache[key(call.groups[i])])
        /\ cache[key(call.groups[i])].group.Repositories # <<>>

\* C5 as amended: the second call is made without invalidateCaches and
\* every group of the account has a repository set that is not empty.
C5_CacheHit ==
    (UserCall /\ CachingEnabled /\ call.err = Nil /\ GroupsResolved)
    => SameWithoutGroupListing(SecondFetchUserPerms([InvalidateCaches |-> FALSE]))

\* A second call that was served from the records of two groups.
C5_Witness ==
    /\ UserCall /\ CachingEnabled /\ call.err = Nil /\ GroupsResolved
    /\ ~call.InvalidateCaches
    /\ Len(call.groups) >= 2
    /\ At(call.log, GroupRepoListings) = {}
    /\ \A i \in 1..Len(call.groups) :
          \E j \in At(call.log, {"useCached"}) :
             /\ call.log[j].target = key(call.groups[i])
             /\ call.log[j].items = call.before[key(call.groups[i])].group.Repositories

(***************************************************************************)
(* C6  Invalidation forces refresh.  A call made with invalidateCaches     *)
(* merges no set stored in the cache: its result is what the directory     *)
(* answered during the call, and when it succeeds every group it           *)
(* discovered was listed from its first page.                              *)
(***************************************************************************)
Listed(k) ==
    \E j \in At(call.log, GroupRepoListings \cup GroupUserListings) :
        call.log[j].target = k /\ call.log[j].page = 1

C6_InvalidationForcesRefresh ==
    ((UserCall \/ RepoCall) /\ CachingEnabled /\ call.InvalidateCaches)
    => /\ At(call.log, {"useCached"}) = {}
       /\ call.ids = Merged(SelectSeq(call.log, IsRequest), TRUE, <<>>)
       /\ call.err = Nil => \A i \in 1..Len(call.groups) : Listed(key(call.groups[i]))

\* The call follows a populate of one of its groups: the record was stored
\* with repositories, was invalidated and was listed again.
C6_Witness ==
    /\ UserCall /\ CachingEnabled /\ call.InvalidateCaches /\ call.err = Nil
    /\ \E i \in 1..Len(call.groups) :
          /\ key(call.groups[i]) \in DOMAIN call.before
          /\ call.before[key(call.groups[i])].group.Repositories # <<>>
          /\ \E j \in At(call.log, {"invalidateGroup"}) :
                call.log[j].target = key(call.groups[i])
          /\ Listed(key(call.groups[i]))

(***************************************************************************)
(* C7  A failed enumeration does not corrupt the cache.  A record is       *)
(* written only right after the last page of a successful enumeration of   *)
(* its group, and when a page of a group's enumeration fails the stored    *)
(* record of that group is the one stored before the call.                 *)
(***************************************************************************)
\* No group was discovered twice by the call.
DiscoveredOnce ==
    \A i, j \in 1..Len(call.groups) : i # j => key(call.groups[i]) # key(call.groups[j])

GroupEnumerationFailed ==
    /\ (UserCall \/ RepoCall) /\ CachingEnabled /\ call.err # Nil
    /\ DiscoveredOnce
    /\ Last(call.log).op \in GroupRepoListings \cup GroupUserListings

C7_FailedEnumerationKeepsCache ==
    /\ ((UserCall \/ RepoCall) /\ CachingEnabled /\ DiscoveredOnce)
       => \A i \in At(call.log, {"setGroup"}) :
             /\ i > 1
             /\ call.log[i - 1].op \in GroupRepoListings \cup GroupUserListings
             /\ call.log[i - 1].target = call.log[i].target
             /\ call.log[i - 1].ok /\ ~call.log[i - 1].more
    /\ GroupEnumerationFailed
       => GroupOf(cache, Last(call.log).target) = GroupOf(call.before, Last(call.log).target)

(***************************************************************************)
(* C8  Partial failure preserves progress.  When page k of a paginated     *)
(* listing fails, the call returns the error with exactly the identifiers  *)
(* of pages 1..k-1 of that listing and of the earlier phases, each once,   *)
(* and requests nothing after the failing page.                            *)
(***************************************************************************)
PageFailed ==
    /\ (UserCall \/ RepoCall) /\ call.err # Nil
    /\ Last(call.log).op # "GetOrganization"

\* The call ends with pages 1..k of the listing that failed, requested in
\* order, of which only page k failed.
PagesUpToFailure ==
    LET Pages(k, requests) ==
            LET At0 == Len(requests) - k
            IN /\ k >= 1 /\ At0 >= 0
               /\ \A p \in 1..k :
                     /\ requests[At0 + p].op = Last(call.log).op
                     /\ requests[At0 + p].target = Last(call.log).target
                     /\ requests[At0 + p].token = Last(call.log).token
                     /\ requests[At0 + p].page = p
                     /\ requests[At0 + p].ok <=> p < k
    IN Pages(Last(call.log).page, SelectSeq(call.log, IsRequest))

\* The list the direct phase of the call pages through.
DirectList ==
    IF call.kind = "user"
    THEN AffiliatedRepos(IdOf(call.id), userAffiliations)
    ELSE AccountIDsOf(Collaborators(call.id, repoAffiliation))

RECURSIVE FirstPages(_, _, _)
\* The identifiers of pages 1..n of list, each once, added to acc.
FirstPages(list, n, acc) ==
    IF n = 0 THEN acc
    ELSE DedupInto(FirstPages(list, n - 1, acc), PageItems(list, n))

DirectPhaseProgress ==
    Last(call.log).op \in {"ListAffiliatedRepositories", "ListRepositoryCollaborators"}
    => call.ids = FirstPages(DirectList, Last(call.log).page - 1, <<>>)

C8_PartialFailureExactlyEarlierPages ==
    PageFailed
    => /\ ~Last(call.log).ok
       /\ PagesUpToFailure
       /\ DirectPhaseProgress
       /\ call.ids = Merged(call.log, FALSE, <<>>)

\* C8 as amended: the result also holds the identifiers delivered with the
\* failing response of a group's repository listing in FetchUserPerms.
C8_PartialFailurePreservesProgress ==
    PageFailed
    => /\ ~Last(call.log).ok
       /\ PagesUpToFailure
       /\ DirectPhaseProgress
       /\ call.ids = Merged(call.log, TRUE, <<>>)

\* The third page of the direct listing failed and the call returned the
\* two identifiers of pages 1 and 2.
C8_Witness ==
    /\ UserCall /\ call.err # Nil
    /\ Last(call.log).op = "ListAffiliatedRepositories"
    /\ Last(call.log).page = 3
    /\ Len(call.ids) = 2
    /\ Range(call.ids) = Range(PageItems(DirectList, 1)) \cup Range(PageItems(DirectList, 2))

(***************************************************************************)
(* C9  Disabled-cache fallback for users.  With group caching disabled,    *)
(* FetchUserPerms requests only the account's repositories, with no        *)
(* affiliation filter and the account's token, touches no cache and, when  *)
(* no page fails, returns exactly those repositories, each once.           *)
(***************************************************************************)
C9_DisabledCacheFallback ==
    (UserCall /\ ~CachingEnabled)
    => /\ \A i \in 1..Len(call.log) :
             /\ call.log[i].op = "ListAffiliatedRepositories"
             /\ call.log[i].arg = ""
             /\ call.log[i].token = TokenOf(IdOf(call.id))
       /\ cache = call.before
       /\ call.groups = <<>>
       /\ call.err = Nil
          => call.ids = DedupInto(<<>>, AffiliatedRepos(IdOf(call.id), <<>>))

\* The result holds a repository the account reaches only as a member of
\* its organization.
C9_Witness ==
    /\ UserCall /\ ~CachingEnabled /\ call.err = Nil
    /\ \E r \in Range(call.ids) :
          r \notin Range(AffiliatedRepos(IdOf(call.id), <<"owner", "collaborator">>))

Rejected == call.kind \in {"user", "repo"} /\ ~call.valid

C11_PreconditionFailuresFailFast ==
    /\ Rejected
       => /\ call.nil
          /\ call.err # Nil
          /\ call.ids = <<>>
          /\ call.log = <<>>
          /\ cache = call.before
    /\ (call.kind \in {"user", "repo"} /\ call.nil) => Rejected

\* An account without a token was rejected while the cache held records.
C11_Witness ==
    /\ Rejected
    /\ call.kind = "user"
    /\ call.err = <<"no token found in the external account data">>
    /\ DOMAIN call.before # {}
    /\ cache = call.before

(***************************************************************************)
(* C12  Organization discovery filter.  User group discovery includes an   *)
(* organization of the account as a whole-organization group exactly when  *)
(* its default repository permission grants read to all members; no        *)
(* repository listing and no cached set of a restrictive organization      *)
(* contributes to FetchUserPerms.                                          *)
(***************************************************************************)
OrgGroups(groups) == {groups[i].Org : i \in {x \in 1..Len(groups) : groups[x].Team = ""}}

\* The loop over the account's organizations ran to its end.
OrgsDiscovered == At(call.log, {"GetAuthenticatedUserTeams"}) # {}

C12_OrgDiscoveryFilter ==
    (UserCall /\ CachingEnabled)
    => /\ OrgGroups(call.groups) \subseteq ReadAllOrgs(IdOf(call.id))
       /\ OrgsDiscovered => OrgGroups(call.groups) = ReadAllOrgs(IdOf(call.id))
       /\ \A i \in At(call.log, {"ListOrgRepositories", "useCached"}) :
             call.log[i].target \in Orgs
             => call.log[i].target \in ReadAllOrgs(IdOf(call.id))

\* An account of a read-all and of a restrictive organization: only the
\* first became a group and was listed.
C12_Witness ==
    /\ UserCall /\ CachingEnabled /\ call.err = Nil
    /\ Range(UserOrgs(IdOf(call.id))) \ ReadAllOrgs(IdOf(call.id)) # {}
    /\ OrgGroups(call.groups) # {}
    /\ \E i \in At(call.log, {"ListOrgRepositories"}) :
          call.log[i].target \in OrgGroups(call.groups)

(***************************************************************************)
(* C13  Repository group discovery.  For a repository of an organization   *)
(* whose default permission grants read, the discovered groups are the     *)
(* organization alone, not admins-only, and no team is listed; otherwise   *)
(* they are the organization, admins-only, followed by one group, not      *)
(* admins-only, for each team the repository-teams listing returned.       *)
(***************************************************************************)
\* Discovery ran to its end: no error, or the error of a group's members.
RepoGroupsDiscovered ==
    /\ RepoCall /\ CachingEnabled
    /\ RepoOwner(call.id) \in Orgs
    /\ call.err = Nil \/ call.err[1] = "list users for group"

Discovered(group) == <<group.Org, group.Team, group.adminsOnly>>

\* The teams the repository-teams listing returned, page after page.
TeamsReturned ==
    LET Slugs(pages) ==
            [i \in 1..Len(pages) |-> <<RepoOwner(call.id), pages[i].Slug, FALSE>>]
        IsTeams(e) == e.op = "ListRepositoryTeams"
        RECURSIVE Concat(_)
        Concat(entries) ==
            IF entries = <<>> THEN <<>> ELSE Head(entries).items \o Concat(Tail(entries))
    IN Slugs(Concat(SelectSeq(call.log, IsTeams)))

C13_RepoGroupDiscovery ==
    RepoGroupsDiscovered
    => IF orgPerm[RepoOwner(call.id)] = "read"
       THEN /\ [i \in 1..Len(call.groups) |-> Discovered(call.groups[i])]
                 = << <<RepoOwner(call.id), "", FALSE>> >>
            /\ At(call.log, {"ListRepositoryTeams"}) = {}
       ELSE [i \in 1..Len(call.groups) |-> Discovered(call.groups[i])]
               = << <<RepoOwner(call.id), "", TRUE>> >> \o TeamsReturned

\* A repository with a team in a restrictive organization: the admins-only
\* organization is followed by the team.
C13_Witness ==
    /\ RepoGroupsDiscovered /\ call.err = Nil
    /\ orgPerm[RepoOwner(call.id)] = "none"
    /\ Len(call.groups) = 2
    /\ call.groups[1].adminsOnly /\ ~call.groups[2].adminsOnly
    /\ call.groups[2].Team \in Range(RepoTeams(call.id))

(***************************************************************************)
(* C14  Complete repository result.  With caching enabled, a directory     *)
(* that does not change and no listing error, FetchRepoPerms(r) returns    *)
(* exactly r's direct collaborators and, for a repository of an            *)
(* organization, the members of the organization when its default          *)
(* permission grants read, else its admins and the members of the teams    *)
(* of the repository.                                                      *)
(***************************************************************************)
GroupMembers(r) ==
    IF RepoOwner(r) \notin Orgs THEN {}
    ELSE IF orgPerm[RepoOwner(r)] = "read" THEN Range(OrgMembers(RepoOwner(r), FALSE))
    ELSE Range(OrgMembers(RepoOwner(r), TRUE)) \cup TeamMembersOf(r)

CompleteRepoResult(r) ==
    {FormatInt(id) : id \in Range(DirectCollaborators(r)) \cup GroupMembers(r)}

C14_CompleteRepoResult ==
    (RepoCall /\ CachingEnabled /\ call.err = Nil)
    => Range(call.ids) = CompleteRepoResult(call.id)

\* A result served from the cache that holds more than the collaborators.
C14_Witness ==
    /\ RepoCall /\ CachingEnabled /\ call.err = Nil
    /\ At(call.log, {"useCached"}) # {}
    /\ GroupMembers(call.id) \ Range(DirectCollaborators(call.id)) # {}
    /\ Range(call.ids) = CompleteRepoResult(call.id)

(***************************************************************************)
(* C15  User-owned repository.  When the lookup of the owner as an         *)
(* organization answers not-found, FetchRepoPerms discovers no group,      *)
(* lists no team and no member and returns exactly the direct              *)
(* collaborators with a nil error; when the lookup fails otherwise, that   *)
(* error is returned with the direct collaborators.                        *)
(***************************************************************************)
OrgLookedUp == RepoCall /\ CachingEnabled /\ At(call.log, {"GetOrganization"}) # {}

\* The call got its answers from the directory without a failure.
NoFault == call.faultAt = 0

DirectCollaboratorsOnly ==
    /\ call.groups = <<>>
    /\ call.ids = DedupInto(<<>>, AccountIDsOf(Collaborators(call.id, "direct")))
    /\ At(call.log, {"ListRepositoryTeams"} \cup GroupUserListings \cup CacheOps) = {}
    /\ Last(call.log).op = "GetOrganization"

C15_UserOwnedRepository ==
    /\ (OrgLookedUp /\ RepoOwner(call.id) \notin Orgs /\ NoFault)
       => DirectCollaboratorsOnly /\ call.err = Nil
    /\ (OrgLookedUp /\ ~NoFault /\ Last(call.log).op = "GetOrganization")
       => /\ DirectCollaboratorsOnly
          /\ call.err = <<"get groups affiliated with repo">> \o DirectoryError

\* A repository of a user with two collaborators, answered without error.
C15_Witness ==
    /\ OrgLookedUp /\ RepoOwner(call.id) \notin Orgs /\ NoFault
    /\ call.err = Nil
    /\ Len(call.ids) = 2

(***************************************************************************)
(* C16  Member registration.  After a FetchUserPerms for account A that    *)
(* completes without error with caching enabled, the stored record of      *)
(* every group discovered for A lists A among its users.                   *)
(***************************************************************************)
UserSynced == UserCall /\ CachingEnabled /\ call.err = Nil

StoredUsers(group) == cache[key(group)].group.Users

C16_MemberRegistered ==
    UserSynced
    => \A i \in 1..Len(call.groups) :
          /\ key(call.groups[i]) \in DOMAIN cache
          /\ call.id \in Range(StoredUsers(call.groups[i]))

\* C16 as amended: the account is registered in the records whose user set
\* was populated when the call read them; a record read with no users is
\* stored with no users.
C16_MemberRegisteredWhenPopulated ==
    UserSynced
    => \A i \in 1..Len(call.groups) :
          /\ key(call.groups[i]) \in DOMAIN cache
          /\ IF call.groups[i].Users # <<>>
             THEN /\ call.id \in Range(StoredUsers(call.groups[i]))
                  /\ StoredUsers(call.groups[i])
                        = DedupInto(call.groups[i].Users, <<call.id>>)
             ELSE StoredUsers(call.groups[i]) = <<>>

\* The account joined a record whose users did not list it.
C16_Witness ==
    /\ UserSynced
    /\ \E i \in 1..Len(call.groups) :
          /\ call.groups[i].Users # <<>>
          /\ call.id \notin Range(call.groups[i].Users)
          /\ StoredUsers(call.groups[i]) = Append(call.groups[i].Users, call.id)

(***************************************************************************)
(* C17  Partial cache hit.  A call without invalidateCaches that reads a   *)
(* record with the users populated and no repositories (FetchUserPerms),   *)
(* or the repositories populated and no users (FetchRepoPerms), lists only *)
(* the empty field; the record it stores keeps every identifier of the     *)
(* populated field and adds the account or repository of the call to it    *)
(* only when it was absent.                                                *)
(***************************************************************************)
StoredGroup(group) == cache[key(group)].group

\* What the directory lists for a group.
GroupRepos(group) ==
    IF group.Team = "" THEN OrgRepos(group.Org) ELSE TeamRepos(group.Org, group.Team)

GroupUsers(group) ==
    AccountIDsOf(IF group.Team = "" THEN OrgMembers(group.Org, group.adminsOnly)
                 ELSE TeamMembers(group.Org, group.Team))

Merges(k) == \E j \in At(call.log, {"useCached"}) : call.log[j].target = k

UsersOnly(group) == group.Users # <<>> /\ group.Repositories = <<>>
RepositoriesOnly(group) == group.Repositories # <<>> /\ group.Users = <<>>

C17_PartialCacheHit ==
    /\ (UserSynced /\ ~call.InvalidateCaches)
       => \A i \in 1..Len(call.groups) :
             UsersOnly(call.groups[i])
             => /\ Listed(key(call.groups[i])) /\ ~Merges(key(call.groups[i]))
                /\ At(call.log, UserListings) = {}
                /\ StoredGroup(call.groups[i]).Users
                      = DedupInto(call.groups[i].Users, <<call.id>>)
                /\ Range(StoredGroup(call.groups[i]).Repositories)
                      = Range(GroupRepos(call.groups[i]))
    /\ (RepoCall /\ CachingEnabled /\ call.err = Nil /\ ~call.InvalidateCaches)
       => \A i \in 1..Len(call.groups) :
             RepositoriesOnly(call.groups[i])
             => /\ Listed(key(call.groups[i])) /\ ~Merges(key(call.groups[i]))
                /\ At(call.log, RepoListings) = {}
                /\ StoredGroup(call.groups[i]).Repositories
                      = DedupInto(call.groups[i].Repositories, <<call.id>>)
                /\ Range(StoredGroup(call.groups[i]).Users)
                      = Range(GroupUsers(call.groups[i]))

\* FetchRepoPerms read a record with repositories and no users, listed the
\* members and stored them next to the repositories.
C17_Witness ==
    /\ RepoCall /\ CachingEnabled /\ call.err = Nil /\ ~call.InvalidateCaches
    /\ \E i \in 1..Len(call.groups) :
          /\ RepositoriesOnly(call.groups[i])
          /\ Listed(key(call.groups[i]))
          /\ StoredGroup(call.groups[i]).Users # <<>>
          /\ StoredGroup(call.groups[i]).Repositories = call.groups[i].Repositories


(***************************************************************************)
(* Concurrent callers.  The provider holds no lock of its own: a call      *)
(* reads the records of its groups during discovery (getGroup) and writes  *)
(* its copies back in the loop over the groups (setGroup), and the calls   *)
(* of other callers run in between.  A racing call is at "discovered"      *)
(* after its discovery and at "done" after its loop over the groups.       *)
(***************************************************************************)
MaxRacing == 2

Racer(kind, id, owner, at, perms, groups, wrote) ==
    [kind |-> kind, id |-> id, owner |-> owner, at |-> at, perms |-> perms,
     groups |-> groups, wrote |-> wrote]

\* The records a call has stored, as its last setGroup of each key left them.
Written(w) == {w.cache[w.log[j].target].group : j \in At(w.log, {"setGroup"})}

CanBegin ==
    /\ call = NoCall
    /\ groupsCache # "nil"
    /\ Cardinality(racing) < MaxRacing

\* A caller runs FetchUserPerms up to the end of the discovery of the
\* groups: the direct listing, then getUserAffiliatedGroups.
BeginFetchUserPerms ==
    \E account \in Accounts :
        LET Found(found, perms) ==
                /\ cache' = found.w.cache
                /\ racing' = racing \cup {Racer("user", account.AccountID, "", "discovered",
                                                perms, found.groups, {})}
            Direct(direct) ==
                Found(getUserAffiliatedGroups(direct.w, account.token,
                                              [InvalidateCaches |-> FALSE]),
                      direct.perms)
        IN /\ CanBegin
           /\ Direct(syncDirectAffiliations(World(0, FALSE), account.token,
                                            userAffiliations, 1, NoPerms))
           /\ UNCHANGED <<ttl, orgPerm, overlap, call, created>>

\* The call runs its loop over the groups it discovered and returns.
CompleteFetchUserPerms ==
    \E r \in racing :
        LET Synced(synced) ==
                /\ cache' = synced.w.cache
                /\ racing' = (racing \ {r}) \cup
                                {[r EXCEPT !.at = "done", !.perms = synced.perms,
                                           !.wrote = Written(synced.w)]}
        IN /\ r.kind = "user"
           /\ r.at = "discovered"
           /\ Synced(syncUserGroups(World(0, FALSE), r.perms, r.groups, r.id))
           /\ UNCHANGED <<ttl, orgPerm, overlap, call, created>>

\* A caller runs FetchRepoPerms up to the end of the discovery of the
\* groups: the collaborator listing, then getRepoAffiliatedGroups.
BeginFetchRepoPerms ==
    \E repo \in Repositories :
        LET Found(found, perms) ==
                /\ cache' = found.w.cache
                /\ racing' = racing \cup {Racer("repo", repo.ID, TrimHost(repo.URI)[1],
                                                "discovered", perms, found.groups, {})}
            Direct(direct) ==
                Found(getRepoAffiliatedGroups(direct.w, TrimHost(repo.URI)[1],
                                              TrimHost(repo.URI)[2],
                                              [InvalidateCaches |-> FALSE]),
                      direct.perms)
        IN /\ CanBegin
           /\ Direct(syncCollaborators(World(0, FALSE), TrimHost(repo.URI)[1],
                                       TrimHost(repo.URI)[2], repoAffiliation, 1, NoUsers))
           /\ UNCHANGED <<ttl, orgPerm, overlap, call, created>>

\* The call runs its loop over the groups it discovered and returns.
CompleteFetchRepoPerms ==
    \E r \in racing :
        LET Synced(synced) ==
                /\ cache' = synced.w.cache
                /\ racing' = (racing \ {r}) \cup
                                {[r EXCEPT !.at = "done", !.perms = synced.perms,
                                           !.wrote = Written(synced.w)]}
        IN /\ r.kind = "repo"
           /\ r.at = "discovered"
           /\ Synced(syncRepoGroups(World(0, FALSE), r.perms, r.groups, r.owner, r.id))
           /\ UNCHANGED <<ttl, orgPerm, overlap, call, created>>

AllDone == racing # {} /\ \A r \in racing : r.at = "done"

\* The callers have taken their results.
ReturnAll ==
    /\ AllDone
    /\ racing' = {}
    /\ UNCHANGED <<ttl, cache, orgPerm, overlap, call, created>>

NextConcurrent ==
    \/ BeginFetchUserPerms \/ CompleteFetchUserPerms
    \/ BeginFetchRepoPerms \/ CompleteFetchRepoPerms
    \/ ReturnAll \/ SetOrgPermission

SpecConcurrent == Init /\ [][NextConcurrent]_vars

(***************************************************************************)
(* C18: when concurrent Fetch calls that touch the same group key have all *)
(* completed without error and without invalidation, no completed update   *)
(* is lost: the stored record lists every account that a call registered   *)
(* as a member and every repository that a call appended, and a field a    *)
(* call stored populated is not empty.                                     *)
(***************************************************************************)
Kept(r, g, final) ==
    /\ (r.kind = "user" /\ r.id \in Range(g.Users)) => r.id \in Range(final.Users)
    /\ (r.kind = "repo" /\ r.id \in Range(g.Repositories))
          => r.id \in Range(final.Repositories)
    /\ g.Users # <<>> => final.Users # <<>>
    /\ g.Repositories # <<>> => final.Repositories # <<>>

C18_NoLostUpdate ==
    AllDone => \A r \in racing : \A g \in r.wrote :
                   /\ key(g) \in DOMAIN cache
                   /\ Kept(r, g, cache[key(g)].group)


(***************************************************************************)
(* C19: every enumeration error a Fetch call returns names the phase that  *)
(* failed (the direct listing, the discovery of the groups, or the         *)
(* enumeration of a group, each with a message of its own) and keeps the   *)
(* error of the directory as its cause.                                    *)
(***************************************************************************)
PhaseOf(op) ==
    CASE op = "ListAffiliatedRepositories" -> "list repos for user"
      [] op \in {"GetAuthenticatedUserOrgsDetailsAndMembership",
                 "GetAuthenticatedUserTeams"} -> "get groups affiliated with user"
      [] op \in GroupRepoListings -> "list repos for group"
      [] op = "ListRepositoryCollaborators" -> "list users for repo"
      [] op \in {"GetOrganization", "ListRepositoryTeams"} -> "get groups affiliated with repo"
      [] op \in GroupUserListings -> "list users for group"
      [] OTHER -> ""

EnumerationFailed == (UserCall \/ RepoCall) /\ call.err # Nil

C19_ErrorPhaseTagging ==
    EnumerationFailed
        => /\ IsRequest(Last(call.log))
           /\ ~Last(call.log).ok
           /\ call.err = <<PhaseOf(Last(call.log).op)>> \o DirectoryError
           /\ Cause(call.err) = Cause(DirectoryError)

C19_Witness ==
    /\ EnumerationFailed
    /\ UserCall
    /\ call.err[1] = "get groups affiliated with user"
    /\ Last(call.log).op = "GetAuthenticatedUserTeams"


(***************************************************************************)
(* C20: a stored group record stays in the cache with its stored           *)
(* repository and member identifiers until its TTL expires or a call with  *)
(* invalidateCaches = true invalidates it: no other step, of one caller or *)
(* of concurrent callers, removes a record or an identifier of a stored    *)
(* record.                                                                 *)
(***************************************************************************)
\* Time passes (no call takes a step) and the record of key k reaches the
\* TTL.
Expires(k) == call' = call /\ racing' = racing /\ cache[k].age + 1 >= ttl

\* The call that ends in this step ran with invalidateCaches and
\* invalidated the record of key k.
Invalidates(k) ==
    /\ call'.kind \in {"user", "repo"}
    /\ call'.InvalidateCaches
    /\ \E j \in At(call'.log, {"invalidateGroup"}) : call'.log[j].target = k

Retained(k) ==
    /\ k \in DOMAIN cache'
    /\ Range(cache[k].group.Repositories) \subseteq Range(cache'[k].group.Repositories)
    /\ Range(cache[k].group.Users) \subseteq Range(cache'[k].group.Users)

C20_GroupLifecycle ==
    [][\A k \in DOMAIN cache : Retained(k) \/ Expires(k) \/ Invalidates(k)]_vars



(***************************************************************************)
(* Expiry as get sees it.  Here time passes without the store dropping     *)
(* the records that reach the TTL: they stay in the store, as old as the   *)
(* TTL, and only get's test of their age keeps them from a call.           *)
(***************************************************************************)
Age ==
    /\ call = NoCall
    /\ \E k \in DOMAIN cache : ~Expired(cache[k])
    /\ cache' = [k \in DOMAIN cache |->
                    [cache[k] EXCEPT !.age = IF Expired(cache[k]) THEN @ ELSE @ + 1]]
    /\ UNCHANGED <<ttl, orgPerm, overlap, call, racing, created>>

NextExpiry == CallFetchUserPerms \/ CallFetchRepoPerms \/ Return \/ Age

SpecExpiry == Init /\ [][NextExpiry]_vars

(***************************************************************************)
(* C21: a Fetch call treats a group record older than the TTL like a       *)
(* record that was never cached: the copy it reads is empty, neither set   *)
(* of the record is merged into the result, and a call that succeeds has   *)
(* enumerated the group from the directory.                                *)
(***************************************************************************)
ExpiredBefore(k) == k \in DOMAIN call.before /\ call.before[k].age >= ttl

C21_ExpiredIsAbsent ==
    ((UserCall \/ RepoCall) /\ CachingEnabled)
        => \A i \in 1..Len(call.groups) :
              ExpiredBefore(key(call.groups[i]))
                 => /\ call.groups[i].Repositories = <<>>
                    /\ call.groups[i].Users = <<>>
                    /\ ~Merges(key(call.groups[i]))
                    /\ call.err = Nil => Listed(key(call.groups[i]))

C21_Witness ==
    /\ UserCall /\ CachingEnabled /\ call.err = Nil
    /\ \E i \in 1..Len(call.groups) :
          /\ ExpiredBefore(key(call.groups[i]))
          /\ call.before[key(call.groups[i])].group.Repositories # <<>>
          /\ Listed(key(call.groups[i]))
          /\ cache[key(call.groups[i])].age = 0


(***************************************************************************)
(* C22: within one Fetch call every enumeration of a paginated listing     *)
(* asks for page 1 first and then for pages 2, 3, ... in order without a   *)
(* gap, asks for no page twice, goes on exactly while the last page        *)
(* reports further pages, and ends at the first page that fails: no        *)
(* request follows a failed one.                                           *)
(***************************************************************************)
Requests == SelectSeq(call.log, IsRequest)

\* GetOrganization is the one request that is not a page of a listing.
Paginated(e) == e.op # "GetOrganization"

\* Request b asks for the page after the page of request a, of the same
\* listing, and a reported further pages.
Continues(a, b) ==
    /\ a.op = b.op /\ a.token = b.token /\ a.target = b.target /\ a.arg = b.arg
    /\ a.ok /\ a.more
    /\ b.page = a.page + 1

C22_SequentialPagingNoRetry ==
    call.kind \in {"user", "repo"}
        => \A j \in 1..Len(Requests) :
              /\ Paginated(Requests[j])
                    => \/ Requests[j].page = 1
                       \/ j > 1 /\ Continues(Requests[j - 1], Requests[j])
              /\ (Requests[j].ok /\ Requests[j].more)
                    => j < Len(Requests) /\ Continues(Requests[j], Requests[j + 1])
              /\ (Paginated(Requests[j]) /\ ~Requests[j].ok) => j = call.faultAt
              /\ j = call.faultAt
                    => /\ j = Len(Requests)
                       /\ ~Requests[j].ok
                       /\ call.err # Nil

C22_Witness ==
    /\ call.kind = "repo"
    /\ call.err # Nil
    /\ Len(Requests) > 3
    /\ Requests[Len(Requests)].page = 2
    /\ Requests[Len(Requests)].op \in GroupUserListings


(***************************************************************************)
(* C24: the discovery of the groups of an account goes through every page  *)
(* of the account's organizations before it asks for the first page of the *)
(* account's teams: every organization group is read from the cache        *)
(* before the first team request, the organization listing has ended when  *)
(* the team listing starts, and the groups of the call list every          *)
(* organization before any team.                                           *)
(***************************************************************************)
OrgRequests == At(call.log, {"GetAuthenticatedUserOrgsDetailsAndMembership"})
TeamRequests == At(call.log, {"GetAuthenticatedUserTeams"})

\* The reads of organization records (keys without a team) in the log.
OrgReads == {j \in At(call.log, {"getGroup"}) : call.log[j].target \in Orgs}

C24_OrgsBeforeTeams ==
    UserCall
        => /\ \A i \in OrgRequests \cup OrgReads : \A j \in TeamRequests : i < j
           /\ TeamRequests # {}
                 => \E i \in OrgRequests :
                       /\ \A x \in OrgRequests : x <= i
                       /\ call.log[i].ok /\ ~call.log[i].more
           /\ \A i, j \in 1..Len(call.groups) :
                 (i < j /\ call.groups[j].Team = "") => call.groups[i].Team = ""

C24_Witness ==
    /\ UserCall
    /\ Cardinality(OrgRequests) > 1
    /\ TeamRequests # {}
    /\ \E i, j \in 1..Len(call.groups) :
          call.groups[i].Team = "" /\ call.groups[j].Team # ""


(***************************************************************************)
(* C25: an empty cached set is never a cache hit.  A FetchUserPerms call   *)
(* that reads a group with an empty repository set merges nothing cached   *)
(* for it and, when it succeeds, has listed the group's repositories from  *)
(* page 1 to the last page and stored them; a FetchRepoPerms call does the *)
(* same for a group with an empty member set.                              *)
(***************************************************************************)
\* The listing of the group of key k was asked up to its last page.
ListedToTheEnd(k, ops) ==
    /\ \E j \in At(call.log, ops) : call.log[j].target = k /\ call.log[j].page = 1
    /\ \E j \in At(call.log, ops) :
          call.log[j].target = k /\ call.log[j].ok /\ ~call.log[j].more

C25_EmptySetsNeverHit ==
    /\ (UserCall /\ CachingEnabled)
          => \A i \in 1..Len(call.groups) :
                call.groups[i].Repositories = <<>>
                   => /\ ~Merges(key(call.groups[i]))
                      /\ call.err = Nil
                            => /\ ListedToTheEnd(key(call.groups[i]), GroupRepoListings)
                               /\ Range(StoredGroup(call.groups[i]).Repositories)
                                     = Range(GroupRepos(call.groups[i]))
    /\ (RepoCall /\ CachingEnabled)
          => \A i \in 1..Len(call.groups) :
                call.groups[i].Users = <<>>
                   => /\ ~Merges(key(call.groups[i]))
                      /\ call.err = Nil
                            => /\ ListedToTheEnd(key(call.groups[i]), GroupUserListings)
                               /\ Range(StoredGroup(call.groups[i]).Users)
                                     = Range(GroupUsers(call.groups[i]))

\* A group stored with no repository (it has none) is listed again.
C25_Witness ==
    /\ UserCall /\ CachingEnabled /\ call.err = Nil
    /\ \E i \in 1..Len(call.groups) :
          /\ key(call.groups[i]) \in DOMAIN call.before
          /\ call.groups[i].Repositories = <<>>
          /\ ListedToTheEnd(key(call.groups[i]), GroupRepoListings)


(***************************************************************************)
(* C26: when a page of a group's repository listing fails in               *)
(* FetchUserPerms, the call returns the error with the direct              *)
(* affiliations, the repositories of every group before the failed one,    *)
(* the repositories of the earlier pages of the failed group and the       *)
(* repositories delivered with the failing response; it stores nothing     *)
(* once the failed enumeration has begun and goes on to no later group.    *)
(***************************************************************************)
GroupRepoListingFailed ==
    UserCall /\ call.err # Nil /\ Last(Requests).op \in GroupRepoListings

\* The groups the loop was done with when the call ended: one cached set
\* merged or one listing asked to its last page for each.
Processed ==
    Cardinality(At(call.log, {"useCached"}))
    + Cardinality({j \in At(call.log, GroupRepoListings) :
                      call.log[j].ok /\ ~call.log[j].more})

RECURSIVE EarlierGroups(_)
\* The result after the direct listing and the first n groups of the call.
EarlierGroups(n) ==
    IF n = 0 THEN DedupInto(<<>>, AffiliatedRepos(IdOf(call.id), userAffiliations))
    ELSE DedupInto(EarlierGroups(n - 1),
                   IF call.groups[n].Repositories # <<>> THEN call.groups[n].Repositories
                   ELSE GroupRepos(call.groups[n]))

\* Where in the log the enumeration that failed began.
FailedEnumerationStart ==
    CHOOSE s \in At(call.log, GroupRepoListings) :
        /\ call.log[s].page = 1
        /\ \A j \in At(call.log, GroupRepoListings) : call.log[j].page = 1 => j <= s

C26_GroupRepoFailure ==
    GroupRepoListingFailed
        => /\ call.err = Wrap(DirectoryError, "list repos for group")
           /\ ~Last(Requests).ok
           /\ Last(call.log) = Last(Requests)
           /\ Processed < Len(call.groups)
           /\ key(call.groups[Processed + 1]) = Last(Requests).target
           /\ call.ids = DedupInto(FirstPages(GroupRepos(call.groups[Processed + 1]),
                                              Last(Requests).page - 1,
                                              EarlierGroups(Processed)),
                                   Last(Requests).items)
           /\ \A j \in At(call.log, {"setGroup"}) : j < FailedEnumerationStart

\* The second group of the call failed on its first page, which delivered a
\* repository; a later group was left alone.
C26_Witness ==
    /\ GroupRepoListingFailed
    /\ Processed >= 1
    /\ Processed + 1 < Len(call.groups)
    /\ Last(Requests).items # <<>>
    /\ Last(Requests).items[1] \in Range(call.ids)


(***************************************************************************)
(* C27: when the discovery of the groups fails (a page of the organization *)
(* or team listing in FetchUserPerms; the organization lookup, other than  *)
(* by not-found, or a page of the repository-teams listing in              *)
(* FetchRepoPerms), the call returns the error with exactly the result of  *)
(* the direct listing: no group found before the failure is listed or      *)
(* merged, whatever its cached sets hold.                                  *)
(***************************************************************************)
DiscoveryFailed ==
    (UserCall \/ RepoCall) /\ call.err # Nil /\ Last(Requests).op \in DiscoveryRequests

C27_DiscoveryFailure ==
    DiscoveryFailed
        => /\ call.err = Wrap(DirectoryError,
                              IF call.kind = "user" THEN "get groups affiliated with user"
                              ELSE "get groups affiliated with repo")
           /\ Last(call.log) = Last(Requests)
           /\ call.faultAt = Len(Requests)
           /\ call.ids = DedupInto(<<>>, DirectList)
           /\ At(call.log, {"useCached"} \cup GroupRepoListings \cup GroupUserListings) = {}

\* The team listing failed after an organization with a populated cached
\* repository set had been found.
C27_Witness ==
    /\ DiscoveryFailed
    /\ UserCall
    /\ Last(Requests).op = "GetAuthenticatedUserTeams"
    /\ \E i \in 1..Len(call.groups) : call.groups[i].Repositories # <<>>
    /\ call.ids # <<>>


(***************************************************************************)
(* C28: no group record in the cache holds the same repository identifier  *)
(* twice in its repository set or the same account identifier twice in its *)
(* member set, whatever calls were made and also when the pages of an      *)
(* enumeration overlap.                                                    *)
(***************************************************************************)
C28_CachedSetsNoDuplicates ==
    \A k \in DOMAIN cache :
        /\ NoDuplicates(cache[k].group.Repositories)
        /\ NoDuplicates(cache[k].group.Users)


(***************************************************************************)
(* A directory that grows: one repository of an organization does not      *)
(* exist at first and is created later, after the repositories of its      *)
(* groups may have been cached.                                            *)
(***************************************************************************)
LateRepo == "r4"

InitGrowth ==
    /\ ttl \in TTLs
    /\ cache = [k \in {} |-> 0]
    /\ orgPerm \in {p \in [Orgs -> Permissions] :
                       \A org \in Orgs \ Mutable : p[org] = FixedPermission(org)}
    /\ overlap \in {0, 1}
    /\ call = NoCall
    /\ racing = {}
    /\ created = RepoIDs \ {LateRepo}

\* An owner creates a repository.
CreateRepository ==
    \E r \in RepoIDs \ created :
        /\ call = NoCall
        /\ created' = created \cup {r}
        /\ UNCHANGED <<ttl, cache, orgPerm, overlap, call, racing>>

NextGrowth == CallFetchUserPerms \/ CallFetchRepoPerms \/ Return \/ CreateRepository

SpecGrowth == InitGrowth /\ [][NextGrowth]_vars

(***************************************************************************)
(* C29: when FetchRepoPerms(r) reads a group whose cached repository set   *)
(* is not empty and lacks r, it appends r and writes the record back       *)
(* before it merges or lists the members of the group, and a successful    *)
(* call leaves r stored after the repositories the record held; a later    *)
(* successful FetchUserPerms that reads a populated repository set returns *)
(* every repository of it, r included.                                     *)
(***************************************************************************)
\* The copy of the i-th group of the call holds repositories and not the
\* repository of the call.
LacksRepo(i) ==
    /\ call.groups[i].Repositories # <<>>
    /\ call.id \notin Range(call.groups[i].Repositories)

\* In the log, the first write of the record of key k comes before the
\* first use of its members, merged or listed.
StoredBeforeMembers(k) ==
    \E s \in At(call.log, {"setGroup"}) :
        /\ call.log[s].target = k
        /\ \A j \in At(call.log, {"useCached"} \cup GroupUserListings) :
              call.log[j].target = k => s < j

C29_RepoSelfRegistration ==
    /\ (RepoCall /\ CachingEnabled /\ call.err = Nil)
          => \A i \in 1..Len(call.groups) :
                LacksRepo(i)
                   => /\ StoredBeforeMembers(key(call.groups[i]))
                      /\ StoredGroup(call.groups[i]).Repositories
                            = Append(call.groups[i].Repositories, call.id)
    /\ (UserCall /\ CachingEnabled /\ call.err = Nil)
          => \A i \in 1..Len(call.groups) :
                Range(call.groups[i].Repositories) \subseteq Range(call.ids)

\* The record held the members too, so that the write of the registration
\* is the only write of the call.
C29_Witness ==
    /\ RepoCall /\ CachingEnabled /\ call.err = Nil
    /\ \E i \in 1..Len(call.groups) :
          /\ LacksRepo(i)
          /\ call.groups[i].Users # <<>>
          /\ StoredGroup(call.groups[i]).Repositories
                = Append(call.groups[i].Repositories, call.id)


(***************************************************************************)
(* A provider whose TTL is longer than one unit of time, so that a record  *)
(* is read and written again while it ages, over a directory that does     *)
(* not change and whose pages do not overlap.                              *)
(***************************************************************************)
InitFresh ==
    /\ ttl = MaxTTL + 1
    /\ cache = [k \in {} |-> 0]
    /\ orgPerm \in {p \in [Orgs -> Permissions] :
                       \A org \in Orgs \ Mutable : p[org] = FixedPermission(org)}
    /\ overlap = 0
    /\ call = NoCall
    /\ racing = {}
    /\ created = RepoIDs

SpecFresh == InitFresh /\ [][NextStatic]_vars

(***************************************************************************)
(* C30: every set a Fetch call merges from the cache was produced by a     *)
(* complete enumeration that finished no more than one TTL before the      *)
(* call; a call that keeps a set a record already held (appending to it or *)
(* not) does not extend the time that set is served: it does not make the  *)
(* record younger.                                                         *)
(***************************************************************************)
IsPrefix(s, t) == Len(s) <= Len(t) /\ SubSeq(t, 1, Len(s)) = s

\* The call listed the set of the group of key k with one of ops.
Enumerated(k, ops) == \E j \in At(call.log, ops) : call.log[j].target = k

\* The record of key k holds after the call a set it held before, which
\* the call did not list.
KeptRepositories(k) ==
    /\ call.before[k].group.Repositories # <<>>
    /\ IsPrefix(call.before[k].group.Repositories, cache[k].group.Repositories)
    /\ ~Enumerated(k, GroupRepoListings)

KeptUsers(k) ==
    /\ call.before[k].group.Users # <<>>
    /\ IsPrefix(call.before[k].group.Users, cache[k].group.Users)
    /\ ~Enumerated(k, GroupUserListings)

CacheWrites == At(call.log, {"setGroup", "invalidateGroup"})

\* The keys of the groups the directory yields for an account: its
\* organizations whose default permission grants access, its teams with a
\* repository.
UserGroupKeys(id) ==
    {org \in Range(UserOrgs(id)) :
        canViewOrgRepos([Login |-> org, DefaultRepositoryPermission |-> call.permBefore[org]])}
    \cup {key(cachedGroup(t[1], t[2], <<>>, <<>>)) : t \in TeamsWithRepos(id)}

\* The keys of the owner of a repository and of the teams under the owner.
RepoGroupKeys(r) ==
    {RepoOwner(r)}
    \cup {key(cachedGroup(t[1], t[2], <<>>, <<>>)) : t \in {x \in Teams : x[1] = RepoOwner(r)}}

\* Every group the call discovered was merged from a cached record.
AllMerged ==
    /\ call.err = Nil /\ call.groups # <<>>
    /\ \A i \in 1..Len(call.groups) :
          /\ key(call.groups[i]) \in DOMAIN call.before
          /\ \E j \in At(call.log, {"useCached"}) : call.log[j].target = key(call.groups[i])

AccountListed ==
    \A i \in 1..Len(call.groups) :
        call.id \in Range(call.before[key(call.groups[i])].group.Users)

RepositoryListed ==
    \A i \in 1..Len(call.groups) :
        call.id \in Range(call.before[key(call.groups[i])].group.Repositories)

C31_CacheWriteFrame ==
    /\ UserCall =>
          /\ \A j \in CacheWrites : call.log[j].target \in UserGroupKeys(IdOf(call.id))
          /\ AllMerged /\ AccountListed => CacheWrites = {}
    /\ RepoCall =>
          /\ \A j \in CacheWrites : call.log[j].target \in RepoGroupKeys(call.id)
          /\ AllMerged /\ RepositoryListed => CacheWrites = {}
    /\ UserCall \/ RepoCall =>
          \A k \in DOMAIN cache :
              (\A j \in CacheWrites : call.log[j].target # k)
                  => k \in DOMAIN call.before /\ cache[k] = call.before[k]

\* A FetchUserPerms call merged every group it discovered from records
\* that list its account.
C31_Witness ==
    UserCall /\ AllMerged /\ AccountListed


(***************************************************************************)
(* C32: in FetchUserPerms the listing of the account's direct              *)
(* affiliations, of its organizations and of its teams is issued with the  *)
(* account's own token, never the base credential; the listing of the      *)
(* repositories of a group is issued with the provider's base credential.  *)
(***************************************************************************)
AccountRequests ==
    {"ListAffiliatedRepositories", "GetAuthenticatedUserOrgsDetailsAndMembership",
     "GetAuthenticatedUserTeams"}

C32_CredentialPerCall ==
    UserCall =>
        /\ \A j \in At(call.log, AccountRequests) :
              /\ call.log[j].token = TokenOf(IdOf(call.id))
              /\ call.log[j].token # BaseToken
        /\ \A j \in At(call.log, GroupRepoListings) : call.log[j].token = BaseToken

\* A call listed the affiliations, the organizations and the teams of its
\* account and the repositories of an organization and of a team.
C32_Witness ==
    /\ UserCall
    /\ \A op \in AccountRequests \cup GroupRepoListings : At(call.log, {op}) # {}


(***************************************************************************)
(* C33: with group caching disabled, FetchRepoPerms lists the              *)
(* collaborators of the repository with no affiliation filter, returns     *)
(* exactly that set, each account once, and issues no other request and    *)
(* no cache operation; with caching enabled the collaborator listing is    *)
(* restricted to direct affiliation.                                       *)
(***************************************************************************)
C33_DisabledCacheFallbackForRepos ==
    RepoCall =>
        /\ ~CachingEnabled =>
              /\ \A i \in 1..Len(call.log) :
                    /\ call.log[i].op = "ListRepositoryCollaborators"
                    /\ call.log[i].arg = ""
              /\ cache = call.before
              /\ call.groups = <<>>
              /\ call.ids = Merged(call.log, FALSE, <<>>)
              /\ call.err = Nil
                 => call.ids = DedupInto(<<>>, AccountIDsOf(Collaborators(call.id, "")))
        /\ CachingEnabled =>
              \A i \in At(call.log, {"ListRepositoryCollaborators"}) :
                  call.log[i].arg = "direct"

\* Without a cache the result holds an account that reaches the repository
\* only as a member of its organization.
C33_Witness ==
    /\ RepoCall /\ ~CachingEnabled /\ call.err = Nil
    /\ \E u \in Range(call.ids) : u \notin Range(AccountIDsOf(DirectCollaborators(call.id)))


(***************************************************************************)
(* C34: every Fetch call terminates when every listing ends and the        *)
(* groups are finitely many.  A call is one step here, so what is checked  *)
(* is the bound on its work: each listing outside the loop over the groups *)
(* is started at most once, and each discovered group is enumerated or     *)
(* merged at most once for each of its occurrences in the list of the      *)
(* groups (the pages of one listing are the subject of C22).               *)
(***************************************************************************)
\* The requests for the first page of a listing of ops, for target k.
Started(ops, k) ==
    {j \in At(call.log, ops) : call.log[j].page <= 1 /\ call.log[j].target = k}

\* The times the loop over the groups enumerated or merged the group of key k.
Handled(k) ==
    Cardinality(Started(GroupRepoListings \cup GroupUserListings, k))
    + Cardinality({j \in At(call.log, {"useCached"}) : call.log[j].target = k})

Occurrences(k) == Cardinality({i \in 1..Len(call.groups) : key(call.groups[i]) = k})

StartedOnce ==
    \A op \in {"ListAffiliatedRepositories", "ListRepositoryCollaborators"} \cup DiscoveryRequests :
        Cardinality({j \in At(call.log, {op}) : call.log[j].page <= 1}) <= 1

C34_BoundedWork ==
    (UserCall \/ RepoCall) =>
        /\ StartedOnce
        /\ \A j \in At(call.log, GroupRepoListings \cup GroupUserListings \cup {"useCached"}) :
              Handled(call.log[j].target) <= Occurrences(call.log[j].target)

\* A call found the same group twice and enumerated it twice.
C34_Witness ==
    /\ UserCall \/ RepoCall
    /\ \E k \in DOMAIN cache :
          /\ Occurrences(k) = 2
          /\ Cardinality(Started(GroupRepoListings \cup GroupUserListings, k)) = 2


(***************************************************************************)
(* C35: when FetchRepoPerms enumerates the members of the group of the     *)
(* whole organization, it asks for the admins only exactly when the group  *)
(* was discovered admins-only; a team group is always enumerated through   *)
(* the team-members listing of the owner of the repository, and only the   *)
(* group of the organization through the organization-members listing.     *)
(***************************************************************************)
OrgGroupsOf(groups) == {i \in 1..Len(groups) : groups[i].Team = ""}
TeamGroupsOf(groups) == {i \in 1..Len(groups) : groups[i].Team # ""}

C35_AdminScopedMemberListing ==
    RepoCall =>
        /\ \A j \in At(call.log, {"ListOrganizationMembers"}) :
              /\ call.log[j].target = RepoOwner(call.id)
              /\ OrgGroupsOf(call.groups) # {}
              /\ \A i \in OrgGroupsOf(call.groups) :
                    /\ call.groups[i].Org = call.log[j].target
                    /\ call.groups[i].adminsOnly <=> call.log[j].arg = "admins"
                    /\ ~call.groups[i].adminsOnly <=> call.log[j].arg = "all"
        /\ \A j \in At(call.log, {"ListTeamMembers"}) :
              \E i \in TeamGroupsOf(call.groups) :
                  /\ call.groups[i].Org = RepoOwner(call.id)
                  /\ call.log[j].target = NameWithOwner(RepoOwner(call.id), call.groups[i].Team)
        /\ Cardinality(Started({"ListOrganizationMembers"}, RepoOwner(call.id)))
              <= Cardinality(OrgGroupsOf(call.groups))

\* A call listed the admins of the organization and the members of a team.
C35_Witness ==
    /\ RepoCall /\ call.err = Nil
    /\ \E j \in At(call.log, {"ListOrganizationMembers"}) : call.log[j].arg = "admins"
    /\ At(call.log, {"ListTeamMembers"}) # {}


(***************************************************************************)
(* Validate and its parts.                                                 *)
(***************************************************************************)
\* The OAuth scopes a token may hold, in the order the code host lists them.
Scopes == <<"repo", "read:org", "write:org", "admin:org", "user">>

ScopeMessage == "Scope read:org, write:org, or admin:org is required"
ScopeLookupFailed == "Additional OAuth scopes are required, but failed to get available scopes"

\* requiredAuthScopes asking for read:org alone.
requiredAuthScopes_ReadOrgOnly ==
    IF groupsCache # "nil"
    THEN << [oneOf |-> <<"read:org">>, message |-> ScopeMessage] >>
    ELSE <<>>

requiredAuthScopes ==
    IF groupsCache # "nil"
    THEN << [oneOf |-> <<"read:org", "write:org", "admin:org">>, message |-> ScopeMessage] >>
    ELSE <<>>

\* client.GetAuthenticatedOAuthScopes: one request with the base credential.
GetAuthenticatedOAuthScopes(w, scopes) ==
    LET Answer(failing) ==
            Response(w,
                     Entry("GetAuthenticatedOAuthScopes", BaseToken, "", 0, "", ~failing,
                           IF failing THEN <<>> ELSE scopes, FALSE),
                     failing)
    IN Answer(w.n + 1 = w.faultAt)

RECURSIVE unsatisfied(_, _)
\* "check if required scopes are satisfied": the messages of the required
\* scopes none of whose alternatives is among gotScopes.
unsatisfied(required, gotScopes) ==
    IF required = <<>> THEN <<>>
    ELSE (IF \E s \in Range(Head(required).oneOf) : s \in gotScopes
          THEN <<>> ELSE <<Head(required).message>>)
         \o unsatisfied(Tail(required), gotScopes)

\* Validate; scopes are the scopes of the provider's token.  The problems
\* are the ids of the result.
Validate(w, scopes) ==
    LET Problems(w2, problems) ==
            [w |-> w2, nil |-> FALSE, ids |-> problems, groups |-> <<>>, err |-> Nil]
        Got(r) ==
            IF r.err # Nil THEN Problems(r.w, <<ScopeLookupFailed>>)
            ELSE Problems(r.w, unsatisfied(requiredAuthScopes, Range(r.items)))
    IN IF Len(requiredAuthScopes) > 0 THEN Got(GetAuthenticatedOAuthScopes(w, scopes))
       ELSE Problems(w, <<>>)

\* A caller runs Validate to its end.
CallValidate ==
    \E held \in SUBSET Range(Scopes), faultAt \in 0..1 :
        /\ call = NoCall
        /\ racing = {}
        /\ Ended("validate", "", TRUE, [InvalidateCaches |-> FALSE],
                 Validate(World(faultAt, FALSE), SelectSeq(Scopes, LAMBDA s : s \in held)))
        /\ UNCHANGED <<ttl, orgPerm, overlap, racing, created>>

NextValidate == CallValidate \/ Return

SpecValidate == Init /\ [][NextValidate]_vars

(***************************************************************************)
(* C36: with group caching disabled Validate requests no OAuth scopes and  *)
(* reports no problem; with caching enabled it reports exactly one problem *)
(* when the scope lookup fails or when none of read:org, write:org and     *)
(* admin:org is among the scopes of the token, and no problem when one of  *)
(* them is.                                                                *)
(***************************************************************************)
ValidateCall == call.kind = "validate"

OrgScopes == {"read:org", "write:org", "admin:org"}

C36_Validate ==
    ValidateCall =>
        /\ ~CachingEnabled => call.log = <<>> /\ call.ids = <<>>
        /\ CachingEnabled =>
              /\ Len(call.log) = 1
              /\ call.log[1].op = "GetAuthenticatedOAuthScopes"
              /\ IF ~call.log[1].ok \/ Range(call.log[1].items) \cap OrgScopes = {}
                 THEN Len(call.ids) = 1
                 ELSE call.ids = <<>>
        /\ cache = call.before

\* The token holds write:org and not read:org: no problem is reported.
C36_Witness ==
    /\ ValidateCall /\ CachingEnabled
    /\ call.log[1].ok
    /\ "write:org" \in Range(call.log[1].items)
    /\ "read:org" \notin Range(call.log[1].items)
    /\ call.ids = <<>>

=============================================================================
